---- MODULE Spec2Model ----
(***************************************************************************)
(* State-machine model of micropanel: the HID encoder input source         *)
(* (InputDevice::processEvents), the serial display back-end command       *)
(* buffer (DisplayDevice) and the Display power-save wrapper.              *)
(***************************************************************************)
EXTENDS Integers, Sequences, FiniteSets

VARIABLES
    clock,                    \* what gettimeofday() returns: [tv_sec, tv_usec]
    \* ---- InputDevice (src/include/DeviceInterfaces.h:211-219) ----
    m_state,                  \* lastEventTime, pairedEventCount, totalRelX, totalRelY
    pc,                       \* position of the thread inside processEvents
    eventCount,               \* locals of processEvents
    btnPress,
    pendingMovement,
    pendingVerticalMovement,
    readLog,                  \* raw events read by the current/last drain, in order
    delivered,                \* handler calls made by the current/last drain, in order
    devQueue,                 \* raw events pending on the device (m_fd), oldest first
    flushed,                  \* raw events the current/last drain read and discarded
    \* ---- DisplayDevice (src/include/DeviceInterfaces.h:99-107) ----
    serialFdOpen,             \* m_fd >= 0
    m_disconnected,
    m_cmdBuffer,              \* bytes: buffer[0..used), lastFlush
    m_mutex,                  \* "free" or "held"
    serialPc,                 \* "ready", or where the calling thread is stuck
    serialOp,                 \* the last call: what it wrote and whether it drained
    \* ---- Display (src/include/MenuSystem.h:110-116) ----
    m_poweredOn,
    m_powerSaveEnabled,
    m_powerSaveActivated,
    m_lastActivityTime,
    displayOp,                \* the last Display method called, and whether it switched power
    \* ---- MicroPanel (src/include/MicroPanel.h:56-74) and its module loops ----
    m_config,                 \* powerSaveEnabled, autoDetect, useGPIOMode
    m_running,
    stack,                    \* the running module loops, innermost last
    loopPc,                   \* where the innermost loop is
    rotateAt,                 \* when the last Rotate of this iteration was handed over
    enterCalls,
    exitCalls,
    m_asyncState,             \* GenericListScreen: IDLE, RUNNING, COMPLETED, FAILED, TIMEOUT
    \* ---- DeviceManager (src/include/DeviceInterfaces.h:255-262) ----
    m_deviceDisconnected,
    m_monitorThreadRunning,
    monitors,                 \* the monitor threads ever started: where each one is
    devicePresent,            \* the USB device is plugged in
    \* ---- hotplug handling in MicroPanel::initialize / run ----
    inputFdOpen,              \* InputDevice::m_fd >= 0
    reconnectAttempts,        \* local of monitorDeviceUntilConnected
    lastPeriodicCheck,        \* static local of monitorDeviceUntilConnected (seconds)
    \* ---- worker threads: ThroughputServerScreen, PersistentStorage ----
    m_serverPid,              \* plain pid_t (src/include/ScreenModules.h:373)
    serverThreads,            \* the threads started by startServer(): where each one is
    children,                 \* the iperf3 child processes alive (named by their thread)
    m_savePending,
    m_isDirty,
    saveThreads,              \* the detached threads of scheduleSave(): where each one is
    touched,                  \* for each variable, the threads that have read or written it
    \* ---- MenuScreenModule (src/include/MenuScreenModule.h:50-65) ----
    menuPc,                   \* "config" until loadConfigFromJson() has run, then "loaded"
    useGPIOMode,              \* MenuScreenModule::m_useGPIOMode, the same for every menu
    m_isTopLevelMenu,         \* the four flags and the parent pointer, for each menu module
    m_exitToParent,
    m_exitToMainMenu,
    m_parentMenu,
    m_menu,                   \* the titles buildSubmenu() has put into the menu
    inverted,                 \* Display::isInverted()
    menuStack,                \* the modules being run, innermost last: id, running
    entered,                  \* the modules whose last lifecycle call was enter()
    enterCount,               \* enter() and exit() calls made on each module
    exitCount,
    popRequest,               \* the last choice of "Main Menu": the layers open then
    \* ---- GenericListScreen (src/include/ScreenModules.h:612-618) ----
    listPc,                   \* "none", "active" (entered, its loop running) or "left"
    m_selectedIndex,
    m_shouldExit,
    m_asyncPid,
    m_asyncWaitingForUser,
    m_asyncStartTime,
    m_asyncTimeout,
    m_asyncLogFile,
    m_asyncResultMessage,     \* the lines of the message
    procs,                    \* the child processes forked so far, by pid
    spawned,                  \* how many there are
    waitOp,                   \* the waiting done by the last handler of the list screen
    lastInput,                \* the last input handed to the list screen: kind, parity
    m_items,                  \* the items of the list (ScreenModules.h:589)
    m_firstVisibleItem,       \* the first item drawn (ScreenModules.h:594)
    m_notifyOnExit,           \* ScreenModules.h:605-610
    m_callback,               \* TRUE when a ScreenCallback is attached
    m_callbackAction,
    callbacks,                \* the onScreenAction() calls made by the list screen
    \* ---- I2CDisplayDevice (src/include/DeviceInterfaces.h:176-178) and Display ----
    m_baseDisplayDevice,      \* "nullptr", "DisplayDevice" or "I2CDisplayDevice"
    m_cursorX,                \* uint8_t
    m_cursorY,
    i2cOp,                    \* the last call made on the I2C device, with its arguments
    m_brightness,             \* Display::m_brightness
    brightnessOp              \* the last setBrightness: argument and value byte written

inputVars == <<m_state, pc, eventCount, btnPress, pendingMovement,
               pendingVerticalMovement, readLog, delivered, devQueue, flushed>>

serialVars == <<serialFdOpen, m_disconnected, m_cmdBuffer, m_mutex, serialPc, serialOp>>

displayVars == <<m_poweredOn, m_powerSaveEnabled, m_powerSaveActivated,
                 m_lastActivityTime, displayOp>>

loopVars == <<m_config, m_running, stack, loopPc, rotateAt, enterCalls, exitCalls,
              m_asyncState>>

monitorVars == <<m_deviceDisconnected, m_monitorThreadRunning, monitors, devicePresent>>

waitVars == <<inputFdOpen, reconnectAttempts, lastPeriodicCheck>>

workerVars == <<m_serverPid, serverThreads, children, m_savePending, m_isDirty, saveThreads,
                touched>>

menuVars == <<menuPc, useGPIOMode, m_isTopLevelMenu, m_exitToParent, m_exitToMainMenu,
              m_parentMenu, m_menu, inverted, menuStack, entered, enterCount, exitCount,
              popRequest>>

asyncVars == <<listPc, m_selectedIndex, m_shouldExit, m_asyncPid, m_asyncWaitingForUser,
               m_asyncStartTime, m_asyncTimeout, m_asyncLogFile, m_asyncResultMessage,
               procs, spawned, waitOp, lastInput, m_items, m_firstVisibleItem,
               m_notifyOnExit, m_callback, m_callbackAction, callbacks>>

\* what setConfig() and setCallback() leave in the list screen
listConfigVars == <<m_items, m_notifyOnExit, m_callback, m_callbackAction>>

panelVars == <<m_baseDisplayDevice, m_cursorX, m_cursorY, i2cOp, m_brightness, brightnessOp>>

screenVars == <<menuVars, asyncVars, panelVars>>

supervisorVars == <<loopVars, monitorVars, waitVars, workerVars, screenVars>>

vars == <<clock, inputVars, serialVars, displayVars, supervisorVars>>

(***************************************************************************)
(* Bounds of the model                                                     *)
(***************************************************************************)
StartSec == 1700000000        \* tv_sec when the program starts
StartUsec == 960000           \* tv_usec when the program starts
MaxElapsedUs == 160000        \* the clock is explored this far past the start
MaxReads == 3                 \* raw events read in one drain, encoder timing
MaxBatch == 3                 \* raw events read in one drain, mixed keys and encoder
MaxPending == 6               \* raw events that arrive for one drain
ShortText == 97               \* length of the shorter text drawn (100-byte frame)
LongText == 197               \* length of the longer text drawn (200-byte frame)
MaxDisplayUs == 10800000      \* the clock is explored this far in the Display runs
MaxLoopUs == 11000000         \* the clock is explored this far in the loop runs
MaxEnterCalls == 3            \* modules launched in one run
MaxDepth == 2                 \* modules nested in one another
MaxWaitUs == 180000000        \* the clock is explored this far in the wait for the device
MaxMonitors == 3              \* monitor threads started in one run
MaxSupervisorUs == 11000000   \* the clock is explored this far in the supervisor runs
MaxServerThreads == 2         \* server threads started in one run
MaxSaveThreads == 2           \* save threads started in one run

\* steps by which the clock advances between two observations (microseconds)
TickSteps == {5000, 35000, 120000}

(***************************************************************************)
(* Time                                                                    *)
(***************************************************************************)
UsecPerSec == 1000000

\* C integer division truncates toward zero
TruncDiv(a, b) == IF a >= 0 THEN a \div b ELSE -((-a) \div b)

TimeAfter(t, us) ==
    [tv_sec  |-> t.tv_sec + ((t.tv_usec + us) \div UsecPerSec),
     tv_usec |-> (t.tv_usec + us) % UsecPerSec]

\* real microseconds from time a to time b
ElapsedUs(a, b) == (b.tv_sec - a.tv_sec) * UsecPerSec + (b.tv_usec - a.tv_usec)

StartTime == [tv_sec |-> StartSec, tv_usec |-> StartUsec]

ZeroTime == [tv_sec |-> 0, tv_usec |-> 0]

(***************************************************************************)
(* Config.h and linux/input.h constants                                    *)
(***************************************************************************)
EVENT_PROCESS_THRESHOLD == 30
MAX_EVENTS_PER_ITERATION == 5
NEW_MOVEMENT_GAP_MS == 100

EV_SYN == 0
EV_KEY == 1
EV_REL == 2
REL_X == 0
REL_Y == 1
BTN_LEFT == 272
KEY_ENTER == 28
KEY_UP == 103
KEY_LEFT == 105
KEY_RIGHT == 106
KEY_DOWN == 108

RawEvent(t, c, v) == [type |-> t, code |-> c, value |-> v]

(***************************************************************************)
(* InputDevice::processEvents                                              *)
(***************************************************************************)
Rotate(n, where) == [kind |-> "Rotate", steps |-> n, site |-> where]
Button == [kind |-> "Button", steps |-> 0, site |-> "button"]

\* lines 285-290 / 318-323: milliseconds since the last rotary event
TimeDiffMs(st, now) ==
    IF st.lastEventTime.tv_sec # 0
    THEN (now.tv_sec - st.lastEventTime.tv_sec) * 1000
         + TruncDiv(now.tv_usec - st.lastEventTime.tv_usec, 1000)
    ELSE 0

\* lines 292-300 / 325-333: stamp the event, reset after a long gap
Restamp(st, now) ==
    IF TimeDiffMs(st, now) > NEW_MOVEMENT_GAP_MS
    THEN [lastEventTime |-> now, pairedEventCount |-> 0, totalRelX |-> 0, totalRelY |-> 0]
    ELSE [st EXCEPT !.lastEventTime = now]

\* lines 279-311: one EV_REL/REL_X event
AccumulateX(st, now, value) ==
    LET r == Restamp(st, now)
    IN  [r EXCEPT !.totalRelX = @ + value, !.pairedEventCount = @ + 1]

\* lines 312-344: one EV_REL/REL_Y event
AccumulateY(st, now, value) ==
    LET r == Restamp(st, now)
    IN  [r EXCEPT !.totalRelY = @ + value, !.pairedEventCount = @ + 1]

\* lines 216-272: the handler call a keyboard key press makes inside the loop
KeyRotation(code) ==
    IF code = KEY_LEFT THEN <<Rotate(-5, "key")>>
    ELSE IF code = KEY_RIGHT THEN <<Rotate(5, "key")>>
    ELSE IF code = KEY_UP THEN <<Rotate(-5, "key")>>
    ELSE IF code = KEY_DOWN THEN <<Rotate(5, "key")>>
    ELSE <<>>

\* lines 204, 261: presses that set btnPress
SetsBtnPress(ev) ==
    /\ ev.type = EV_KEY
    /\ ev.value = 1
    /\ ev.code \in {BTN_LEFT, KEY_ENTER}

\* lines 204-272: EV_KEY events that increment eventCount
CountedKey(ev) ==
    /\ ev.type = EV_KEY
    /\ ev.value = 1
    /\ ev.code \in {BTN_LEFT, KEY_LEFT, KEY_RIGHT, KEY_UP, KEY_DOWN, KEY_ENTER}

\* lines 380-382: the elapsed time the delivery test uses
TimeSinceLastMs(st, now) ==
    (st.lastEventTime.tv_sec - st.lastEventTime.tv_sec) * 1000
    + TruncDiv(now.tv_usec - st.lastEventTime.tv_usec, 1000)

\* the delivery test without its pairing and expiry conditions
ShouldDeliverAnyPending(st, pendX, pendY, now) ==
    pendX \/ pendY

\* lines 384-385: the delivery test
ShouldDeliver(st, pendX, pendY, now) ==
    /\ pendX \/ pendY
    /\ \/ st.pairedEventCount >= 2
       \/ TimeSinceLastMs(st, now) > EVENT_PROCESS_THRESHOLD

\* the handler calls with the vertical value passed through uninverted
EncoderCallsYNotInverted(st) ==
    (IF st.totalRelX # 0 THEN <<[kind |-> "Rotate", steps |-> st.totalRelX, site |-> "encoder"]>>
     ELSE <<>>)
    \o (IF st.totalRelY # 0 THEN <<[kind |-> "Rotate", steps |-> st.totalRelY, site |-> "encoder"]>>
        ELSE <<>>)

\* lines 386-402: the rotation handler calls of one delivery
EncoderCalls(st) ==
    (IF st.totalRelX # 0 THEN <<Rotate(st.totalRelX, "encoder")>> ELSE <<>>)
    \o (IF st.totalRelY # 0 THEN <<Rotate(-st.totalRelY, "encoder")>> ELSE <<>>)

\* lines 404-407
ResetTracking(st) ==
    [st EXCEPT !.pairedEventCount = 0, !.totalRelX = 0, !.totalRelY = 0]

\* lines 167-188: entry of processEvents on an open device
ProcessEventsBegin ==
    /\ pc = "idle"
    /\ pc' = "loop"
    /\ eventCount' = 0
    /\ btnPress' = 0
    /\ pendingMovement' = FALSE
    /\ pendingVerticalMovement' = FALSE
    /\ readLog' = <<>>
    /\ delivered' = <<>>
    /\ flushed' = <<>>
    /\ UNCHANGED <<clock, m_state, devQueue, serialVars, displayVars, supervisorVars>>

\* lines 189-352: read() returned the event ev, the oldest one pending on the
\* device (one that has just arrived when none was pending); one pass of the loop
ReadEvent(ev) ==
    /\ pc = "loop"
    /\ devQueue # <<>> => ev = Head(devQueue)
    /\ devQueue' = IF devQueue = <<>> THEN devQueue ELSE Tail(devQueue)
    /\ IF eventCount >= MAX_EVENTS_PER_ITERATION
       THEN \* line 189: the event was read, the loop condition fails, it is dropped
            /\ pc' = "post"
            /\ flushed' = Append(flushed, ev)
            /\ UNCHANGED <<m_state, eventCount, btnPress, pendingMovement,
                           pendingVerticalMovement, readLog, delivered>>
       ELSE /\ readLog' = Append(readLog, ev)
            /\ UNCHANGED flushed
            /\ IF ev.type = EV_SYN
               THEN \* lines 197-199
                    /\ pc' = "loop"
                    /\ UNCHANGED <<m_state, eventCount, btnPress, pendingMovement,
                                   pendingVerticalMovement, delivered>>
               ELSE IF ev.type = EV_KEY
               THEN \* lines 202-276: continue, the cap is tested at line 189 only
                    /\ pc' = "loop"
                    /\ btnPress' = IF SetsBtnPress(ev) THEN 1 ELSE btnPress
                    /\ eventCount' = IF CountedKey(ev) THEN eventCount + 1 ELSE eventCount
                    /\ delivered' = IF ev.value = 1 /\ ev.code # BTN_LEFT
                                    THEN delivered \o KeyRotation(ev.code)
                                    ELSE delivered
                    /\ UNCHANGED <<m_state, pendingMovement, pendingVerticalMovement>>
               ELSE /\ IF ev.type = EV_REL /\ ev.code = REL_X
                       THEN /\ m_state' = AccumulateX(m_state, clock, ev.value)
                            /\ pendingMovement' = TRUE
                            /\ eventCount' = eventCount + 1
                            /\ UNCHANGED pendingVerticalMovement
                       ELSE IF ev.type = EV_REL /\ ev.code = REL_Y
                       THEN /\ m_state' = AccumulateY(m_state, clock, ev.value)
                            /\ pendingVerticalMovement' = TRUE
                            /\ eventCount' = eventCount + 1
                            /\ UNCHANGED pendingMovement
                       ELSE UNCHANGED <<m_state, pendingMovement,
                                        pendingVerticalMovement, eventCount>>
                    \* lines 349-351
                    /\ pc' = IF eventCount' >= MAX_EVENTS_PER_ITERATION
                             THEN "post" ELSE "loop"
                    /\ UNCHANGED <<btnPress, delivered>>
    /\ UNCHANGED <<clock, serialVars, displayVars, supervisorVars>>

\* line 189: read() returned 0 or -1 (EAGAIN, EOF), nothing is pending: the
\* loop ends
ReadNone ==
    /\ pc = "loop"
    /\ devQueue = <<>>
    /\ pc' = "post"
    /\ UNCHANGED <<clock, m_state, eventCount, btnPress, pendingMovement,
                   pendingVerticalMovement, readLog, delivered, devQueue, flushed,
                   serialVars, displayVars, supervisorVars>>

FlushesNever(count) == FALSE

\* line 411: the test that guards the flush of the surplus
Flushes(count) == count >= MAX_EVENTS_PER_ITERATION

\* lines 366-421: button callback, encoder delivery, flush of the surplus, return
ProcessEventsEnd ==
    /\ pc = "post"
    /\ pc' = "idle"
    /\ LET afterButton == IF btnPress # 0 THEN Append(delivered, Button) ELSE delivered
       IN  IF ShouldDeliver(m_state, pendingMovement, pendingVerticalMovement, clock)
           THEN /\ delivered' = afterButton \o EncoderCalls(m_state)
                /\ m_state' = ResetTracking(m_state)
           ELSE /\ delivered' = afterButton
                /\ UNCHANGED m_state
    \* lines 411-416: while (read(...) > 0) {}
    /\ IF Flushes(eventCount)
       THEN /\ flushed' = flushed \o devQueue
            /\ devQueue' = <<>>
       ELSE UNCHANGED <<devQueue, flushed>>
    /\ UNCHANGED <<clock, eventCount, btnPress, pendingMovement,
                   pendingVerticalMovement, readLog, serialVars, displayVars, supervisorVars>>

\* time passes between two calls, or between the last read and line 380
Tick(us, limit) ==
    /\ pc \in {"idle", "post"}
    /\ ElapsedUs(StartTime, clock) + us <= limit
    /\ clock' = TimeAfter(clock, us)
    /\ UNCHANGED <<inputVars, serialVars, displayVars, supervisorVars>>

(***************************************************************************)
(* DisplayDevice: the serial back-end (src/src/devices/DisplayDevice.cpp)  *)
(***************************************************************************)
CMD_BUFFER_SIZE == 256
CMD_CLEAR == 1
CMD_DRAW_TEXT == 2
CMD_POWER_MODE == 7

\* errno values after which the device counts as disconnected (lines 147, 162)
DisconnectErrnos == {"EIO", "ENODEV", "ENXIO"}

\* what write(fd, buf, len) can return: all, a part, or -1 with an errno
WriteOutcomes(len) ==
    {[n |-> k, errno |-> "none"] : k \in {1, len \div 2, len - 1, len} \cap (1..len)}
    \cup {[n |-> -1, errno |-> e] : e \in {"EIO", "EAGAIN"}}

\* what tcdrain(fd) can return
DrainOutcomes ==
    {[rc |-> 0, errno |-> "none"], [rc |-> -1, errno |-> "ENODEV"], [rc |-> -1, errno |-> "EINTR"]}

\* lines 211-215: the frame of clear()
ClearFrame == <<CMD_CLEAR>>

\* lines 218-229: the frame of drawText(x, y, text)
DrawTextFrame(x, y, text) == <<CMD_DRAW_TEXT, x % 256, y % 256>> \o text

\* lines 273-279: the frame of setPower(on)
PowerFrame(on) == <<CMD_POWER_MODE, IF on THEN 1 ELSE 0>>

NoOp(name) ==
    [name |-> name, attempted |-> FALSE, accepted |-> <<>>, drained |-> FALSE,
     autoflush |-> FALSE]

\* lines 141-170 with the drain run although the device is marked disconnected
FlushResultDrainAlways(bytes, open, disc, w, dr) ==
    IF Len(bytes) > 0 /\ open
    THEN LET disc1 == disc \/ (w.n < 0 /\ w.errno \in DisconnectErrnos)
         IN  [bytes |-> <<>>,
              disc |-> disc1 \/ (dr.rc < 0 /\ dr.errno \in DisconnectErrnos),
              attempted |-> TRUE,
              accepted |-> IF w.n < 0 THEN <<>> ELSE SubSeq(bytes, 1, w.n),
              drained |-> TRUE]
    ELSE [bytes |-> bytes, disc |-> disc, attempted |-> FALSE, accepted |-> <<>>,
          drained |-> FALSE]

\* lines 141-170: the body of flushBuffer, given what write and tcdrain return
FlushResult(bytes, open, disc, w, dr) ==
    IF Len(bytes) > 0 /\ open
    THEN LET disc1 == disc \/ (w.n < 0 /\ w.errno \in DisconnectErrnos)
             drained == ~disc1
         IN  [bytes |-> <<>>,
              disc |-> disc1 \/ (drained /\ dr.rc < 0 /\ dr.errno \in DisconnectErrnos),
              attempted |-> TRUE,
              accepted |-> IF w.n < 0 THEN <<>> ELSE SubSeq(bytes, 1, w.n),
              drained |-> drained]
    ELSE [bytes |-> bytes, disc |-> disc, attempted |-> FALSE, accepted |-> <<>>,
          drained |-> FALSE]

\* lines 137-171: flushBuffer called with the mutex free
FlushBuffer(w, dr) ==
    /\ serialPc = "ready"
    /\ LET r == FlushResult(m_cmdBuffer.bytes, serialFdOpen, m_disconnected, w, dr)
       IN  /\ m_cmdBuffer' = [m_cmdBuffer EXCEPT !.bytes = r.bytes]
           /\ m_disconnected' = r.disc
           /\ serialOp' = [name |-> "flushBuffer", attempted |-> r.attempted,
                           accepted |-> r.accepted, drained |-> r.drained,
                           autoflush |-> FALSE]
    /\ UNCHANGED <<clock, inputVars, supervisorVars, displayVars, serialFdOpen, m_mutex, serialPc>>

\* lines 119-134: bufferCommand(data, length).  When the frame does not fit,
\* flushBuffer is called with m_mutex held by the caller and locks it again
\* (line 139): std::mutex is not recursive, so the thread either blocks for
\* ever or, where the second lock returns, goes on.  The memcpy of line 129
\* past the end of buffer[] ends the defined behaviour of the program.
BufferCommand(frame, relock, w, dr) ==
    /\ serialPc = "ready"
    /\ IF Len(m_cmdBuffer.bytes) + Len(frame) > CMD_BUFFER_SIZE
       THEN IF relock = "blocks"
            THEN /\ serialPc' = "deadlock"
                 /\ m_mutex' = "held"
                 /\ serialOp' = [NoOp("bufferCommand") EXCEPT !.autoflush = TRUE]
                 /\ UNCHANGED <<m_cmdBuffer, m_disconnected>>
            ELSE LET r == FlushResult(m_cmdBuffer.bytes, serialFdOpen,
                                      m_disconnected, w, dr)
                     fits == Len(r.bytes) + Len(frame) <= CMD_BUFFER_SIZE
                 IN  /\ m_disconnected' = r.disc
                     /\ serialPc' = IF fits THEN "ready" ELSE "overrun"
                     /\ m_cmdBuffer' = [bytes |-> IF fits THEN r.bytes \o frame ELSE r.bytes,
                                        lastFlush |-> clock]
                     /\ serialOp' = [name |-> "bufferCommand", attempted |-> r.attempted,
                                     accepted |-> r.accepted, drained |-> r.drained,
                                     autoflush |-> TRUE]
                     /\ UNCHANGED m_mutex
       ELSE /\ m_cmdBuffer' = [bytes |-> m_cmdBuffer.bytes \o frame, lastFlush |-> clock]
            /\ serialOp' = NoOp("bufferCommand")
            /\ UNCHANGED <<m_disconnected, m_mutex, serialPc>>
    /\ UNCHANGED <<clock, inputVars, supervisorVars, displayVars, serialFdOpen>>

\* lines 174-208: what sendCommand(data, length) does to the device state
SendCommandCall(frame, w, dr) ==
    /\ IF serialFdOpen
       THEN LET disc1 == m_disconnected \/ (w.n < 0 /\ w.errno \in DisconnectErrnos)
                drained == ~disc1
            IN  /\ m_disconnected' =
                       (disc1 \/ (drained /\ dr.rc < 0 /\ dr.errno \in DisconnectErrnos))
                /\ serialOp' = [name |-> "sendCommand", attempted |-> TRUE,
                                accepted |-> IF w.n < 0 THEN <<>> ELSE SubSeq(frame, 1, w.n),
                                drained |-> drained, autoflush |-> FALSE]
       ELSE /\ serialOp' = NoOp("sendCommand")
            /\ UNCHANGED m_disconnected
    /\ UNCHANGED <<serialFdOpen, m_cmdBuffer, m_mutex, serialPc>>

\* lines 174-208: sendCommand(data, length)
SendCommand(frame, w, dr) ==
    /\ serialPc = "ready"
    /\ SendCommandCall(frame, w, dr)
    /\ UNCHANGED <<clock, inputVars, supervisorVars, displayVars>>

\* lines 25-84: open(); ok says whether ::open, tcgetattr and tcsetattr succeed
SerialOpen(ok) ==
    /\ serialPc = "ready"
    /\ IF serialFdOpen
       THEN UNCHANGED <<serialFdOpen, m_disconnected>>
       ELSE /\ serialFdOpen' = ok
            /\ m_disconnected' = IF ok THEN FALSE ELSE m_disconnected
    /\ serialOp' = NoOp("open")
    /\ UNCHANGED <<clock, inputVars, supervisorVars, displayVars, m_cmdBuffer, m_mutex, serialPc>>

\* lines 87-97: what close() does to the device
SerialCloseCall(w, dr) ==
    /\ LET r == FlushResult(m_cmdBuffer.bytes, serialFdOpen, m_disconnected, w, dr)
       IN  /\ m_cmdBuffer' = [m_cmdBuffer EXCEPT !.bytes = r.bytes]
           /\ m_disconnected' = r.disc
           /\ serialOp' = [name |-> "close", attempted |-> r.attempted,
                           accepted |-> r.accepted, drained |-> r.drained,
                           autoflush |-> FALSE]
    /\ serialFdOpen' = FALSE
    /\ UNCHANGED <<m_mutex, serialPc>>

\* lines 87-97: close()
SerialClose(w, dr) ==
    /\ serialPc = "ready"
    /\ SerialCloseCall(w, dr)
    /\ UNCHANGED <<clock, inputVars, supervisorVars, displayVars>>

(***************************************************************************)
(* Display: the power-save wrapper (src/src/menu/Display.cpp)              *)
(***************************************************************************)
POWER_SAVE_TIMEOUT_SEC == 10

\* the record of a call: its name and whether m_poweredOn changed during it
DisplayOp(name) == [name |-> name, changedPower |-> (m_poweredOn' # m_poweredOn)]

\* lines 72-78 with the flag left alone when the display is turned off
SetPowerFlagNotRaised(on) ==
    IF on = m_poweredOn THEN m_powerSaveActivated ELSE (m_powerSaveActivated /\ ~on)

\* lines 61-64, 72-78: m_powerSaveActivated after setPower(on)
SetPowerFlag(on) ==
    IF on = m_poweredOn THEN m_powerSaveActivated ELSE ~on

\* lines 61-70: setPower(on) forwards a change to the device and records it
SetPowerDevice(on, w, dr) ==
    IF on = m_poweredOn
    THEN UNCHANGED <<m_poweredOn, serialVars>>
    ELSE /\ SendCommandCall(PowerFrame(on), w, dr)
         /\ m_poweredOn' = on

\* lines 59-81: what setPower(on) does
SetPowerCall(on, w, dr) ==
    /\ SetPowerDevice(on, w, dr)
    /\ m_powerSaveActivated' = SetPowerFlag(on)

\* lines 59-81: Display::setPower(on)
SetPower(on, w, dr) ==
    /\ SetPowerCall(on, w, dr)
    /\ displayOp' = DisplayOp("setPower")
    /\ UNCHANGED <<clock, inputVars, supervisorVars, m_powerSaveEnabled, m_lastActivityTime>>

\* lines 83-96: what enablePowerSave(enable) does to the display and the device
EnablePowerSaveCall(enable, w, dr) ==
    /\ m_powerSaveEnabled' = enable
    /\ IF enable
       THEN /\ m_lastActivityTime' = clock
            /\ IF ~m_poweredOn
               THEN SetPowerCall(TRUE, w, dr)
               ELSE UNCHANGED <<m_poweredOn, m_powerSaveActivated, serialVars>>
       ELSE UNCHANGED <<m_lastActivityTime, m_poweredOn, m_powerSaveActivated, serialVars>>
    /\ displayOp' = DisplayOp("enablePowerSave")

\* lines 83-96: Display::enablePowerSave(enable)
EnablePowerSave(enable, w, dr) ==
    /\ EnablePowerSaveCall(enable, w, dr)
    /\ UNCHANGED <<clock, inputVars, supervisorVars>>

\* line 103 without the test of m_powerSaveEnabled
ShouldWakeWheneverOff(enabled, powered) == ~powered

\* line 103: the display is woken when power-save is enabled and it is off
ShouldWake(enabled, powered) == enabled /\ ~powered

\* lines 98-107: what updateActivityTimestamp() does to the display and the device
UpdateActivityTimestampCall(w, dr) ==
    /\ m_lastActivityTime' = clock
    /\ IF ShouldWake(m_powerSaveEnabled, m_poweredOn)
       THEN SetPowerCall(TRUE, w, dr)
       ELSE UNCHANGED <<m_poweredOn, m_powerSaveActivated, serialVars>>
    /\ displayOp' = DisplayOp("updateActivityTimestamp")
    /\ UNCHANGED m_powerSaveEnabled

\* lines 98-107: Display::updateActivityTimestamp()
UpdateActivityTimestamp(w, dr) ==
    /\ UpdateActivityTimestampCall(w, dr)
    /\ UNCHANGED <<clock, inputVars, supervisorVars>>

\* line 121 with elapsed time rounded up to whole seconds
TimeoutReachedRoundedUp(last, now) ==
    (now.tv_sec - last.tv_sec) + 1 >= POWER_SAVE_TIMEOUT_SEC

\* lines 115-121: the timeout test, on whole seconds
TimeoutReached(last, now) ==
    (now.tv_sec - last.tv_sec) >= POWER_SAVE_TIMEOUT_SEC

\* lines 109-129: what checkPowerSaveTimeout() does to the display and the device
CheckPowerSaveTimeoutCall(w, dr) ==
    /\ IF m_powerSaveEnabled /\ m_poweredOn /\ TimeoutReached(m_lastActivityTime, clock)
       THEN /\ SetPowerDevice(FALSE, w, dr)
            /\ m_powerSaveActivated' = TRUE          \* line 126, after setPower(false)
       ELSE UNCHANGED <<m_poweredOn, m_powerSaveActivated, serialVars>>
    /\ displayOp' = DisplayOp("checkPowerSaveTimeout")
    /\ UNCHANGED <<m_powerSaveEnabled, m_lastActivityTime>>

\* lines 109-129: Display::checkPowerSaveTimeout()
CheckPowerSaveTimeout(w, dr) ==
    /\ CheckPowerSaveTimeoutCall(w, dr)
    /\ UNCHANGED <<clock, inputVars, supervisorVars>>

\* src/include/MenuSystem.h:104: Display::resetPowerSaveActivated()
ResetPowerSaveActivated ==
    /\ m_powerSaveActivated' = FALSE
    /\ UNCHANGED <<clock, inputVars, supervisorVars, serialVars, m_poweredOn, m_powerSaveEnabled,
                   m_lastActivityTime>>
    /\ displayOp' = DisplayOp("resetPowerSaveActivated")

(***************************************************************************)
(* DeviceManager: the removal monitor and the wait for the device          *)
(* (src/src/devices/DeviceManager.cpp)                                     *)
(***************************************************************************)
\* the threads that have not returned from disconnectionMonitorThread()
LiveMonitors == {i \in DOMAIN monitors : monitors[i] \in {"start", "loop"}}

\* m_monitorThread.joinable(): the last thread started has not been joined
Joinable == monitors # <<>> /\ monitors[Len(monitors)] # "joined"

\* line 353: a monitor is started only when none is marked running
StartGuard(running) == ~running

\* lines 350-358: what startDisconnectionMonitor() does
StartDisconnectionMonitorCall ==
    IF StartGuard(m_monitorThreadRunning)
    THEN /\ m_deviceDisconnected' = FALSE
         /\ m_monitorThreadRunning' = TRUE
         /\ monitors' = Append(monitors, "start")
    ELSE UNCHANGED <<m_deviceDisconnected, m_monitorThreadRunning, monitors>>

\* lines 360-363: stopDisconnectionMonitor() up to the join
StopDisconnectionMonitorCall ==
    /\ m_monitorThreadRunning' = FALSE
    /\ UNCHANGED <<m_deviceDisconnected, monitors>>

\* line 365 returning without waiting for the thread
JoinReadyAtOnce(wasRunning, ms) == TRUE

\* lines 362-366: join() returns once the thread has returned; nothing is
\* joined when the monitor was not marked running or the handle is empty
JoinReady(wasRunning, ms) ==
    ~wasRunning \/ ms = <<>> \/ ms[Len(ms)] \in {"exited", "joined"}

\* line 365: the thread joined is no longer joinable
Joined(ms) ==
    IF ms # <<>> /\ ms[Len(ms)] = "exited" THEN [ms EXCEPT ![Len(ms)] = "joined"] ELSE ms

\* lines 374-397: the thread sets up udev; it returns at once when that fails
MonitorThreadStart(i, udevOk) ==
    /\ i \in DOMAIN monitors /\ monitors[i] = "start"
    /\ monitors' = [monitors EXCEPT ![i] = IF udevOk THEN "loop" ELSE "exited"]
    /\ UNCHANGED <<screenVars, workerVars, clock, inputVars, serialVars, displayVars, loopVars, waitVars,
                   m_deviceDisconnected, m_monitorThreadRunning, devicePresent>>

\* lines 403-447: an iteration that finds the device gone, by the 5 s presence
\* check (405-412) or by a remove event with the panel's VID/PID (418-442)
MonitorThreadDetect(i) ==
    /\ i \in DOMAIN monitors /\ monitors[i] = "loop"
    /\ m_monitorThreadRunning
    /\ ~devicePresent
    /\ m_deviceDisconnected' = TRUE
    /\ monitors' = [monitors EXCEPT ![i] = "exited"]
    /\ UNCHANGED <<screenVars, workerVars, clock, inputVars, serialVars, displayVars, loopVars, waitVars,
                   m_monitorThreadRunning, devicePresent>>

\* line 403: the loop condition fails after stopDisconnectionMonitor()
MonitorThreadEnd(i) ==
    /\ i \in DOMAIN monitors /\ monitors[i] = "loop"
    /\ ~m_monitorThreadRunning
    /\ monitors' = [monitors EXCEPT ![i] = "exited"]
    /\ UNCHANGED <<screenVars, workerVars, clock, inputVars, serialVars, displayVars, loopVars, waitVars,
                   m_deviceDisconnected, m_monitorThreadRunning, devicePresent>>

\* the panel is pulled from the USB port
Unplug ==
    /\ devicePresent
    /\ devicePresent' = FALSE
    /\ UNCHANGED <<screenVars, workerVars, clock, inputVars, serialVars, displayVars, loopVars, waitVars,
                   m_deviceDisconnected, m_monitorThreadRunning, monitors>>

\* the panel is plugged in again
Plug ==
    /\ ~devicePresent
    /\ devicePresent' = TRUE
    /\ UNCHANGED <<screenVars, workerVars, clock, inputVars, serialVars, displayVars, loopVars, waitVars,
                   m_deviceDisconnected, m_monitorThreadRunning, monitors>>

(***************************************************************************)
(* MicroPanel: the supervisor loop and the module loops                    *)
(* (src/src/MicroPanel.cpp, src/src/modules/*.cpp)                         *)
(***************************************************************************)
\* the screen modules followed here; the other modules stamp the activity time
\* in every handler exactly as GenericListScreen does in its IDLE state
ModuleKinds == {"MenuScreenModule", "GenericListScreen", "ThroughputServerScreen", "TextBoxScreen"}

LeafKinds == ModuleKinds \ {"MenuScreenModule"}

\* what the selected line of the active screen can be when the button is pressed
ItemsOf(kind) ==
    CASE kind = "MenuScreenModule" -> {"Back"} \cup LeafKinds
      [] kind = "GenericListScreen" -> {"Back", "async", "action"}
      [] kind = "ThroughputServerScreen" -> {"Start", "Stop", "Back"}
      [] OTHER -> {"none"}

Frame(kind) == [kind |-> kind, moduleRunning |-> TRUE]

Top == stack[Len(stack)]

WaitingForUser(async) == async \in {"COMPLETED", "FAILED", "TIMEOUT"}

\* the answer of a handler: whether it called updateActivityTimestamp(), the
\* list screen's new async state, how often it called enter() itself, whether
\* the module keeps running, and the module it launches
Outcome(stamp, async, enters, running, launch) ==
    [stamp |-> stamp, async |-> async, enters |-> enters, running |-> running, launch |-> launch]

\* Menu::handleRotation() and Menu::handleButtonPress() register the input as
\* activity before they act on it
MenuStampsActivity == TRUE

\* whether the GPIO rotation handler of the module calls updateActivityTimestamp():
\* MenuScreenModule.cpp handleGPIORotation (Menu::handleRotation),
\* GenericListScreen.cpp:836-886, ThroughputServerScreen.cpp:527-553,
\* MicroPanel.cpp:1024-1125 (no branch for TextBoxScreen)
GpioRotationStamps(kind, async) ==
    CASE kind = "MenuScreenModule" -> MenuStampsActivity
      [] kind = "GenericListScreen" -> async # "RUNNING"
      [] kind = "ThroughputServerScreen" -> FALSE
      [] OTHER -> FALSE

\* GenericListScreen.cpp:848,901: the completion message is dismissed by
\* calling enter() again to redraw the list
RedrawEnters(async) == IF WaitingForUser(async) THEN 1 ELSE 0

\* MicroPanel.cpp:1024-1125: simulateRotationForModule(module, direction)
RotationOutcome(kind, async) ==
    IF kind = "GenericListScreen"
    THEN Outcome(GpioRotationStamps(kind, async),
                 IF WaitingForUser(async) THEN "IDLE" ELSE async,
                 RedrawEnters(async), TRUE, "none")
    ELSE Outcome(GpioRotationStamps(kind, async), async, 0, TRUE, "none")

\* MicroPanel.cpp:903-990: the button callback of runModuleWithGPIOInput, and
\* the handleGPIOButtonPress() of the module it calls; forked says whether
\* fork() of an async item succeeded (GenericListScreen.cpp:546,566)
ButtonOutcome(kind, async, item, forked) ==
    CASE kind = "MenuScreenModule" ->
           IF item = "Back"
           THEN Outcome(MenuStampsActivity, async, 0, FALSE, "none")
           ELSE Outcome(MenuStampsActivity, async, 0, TRUE, item)
      [] kind = "GenericListScreen" ->
           IF WaitingForUser(async) THEN Outcome(TRUE, "IDLE", RedrawEnters(async), TRUE, "none")
           ELSE IF async = "RUNNING" THEN Outcome(FALSE, async, 0, TRUE, "none")
           ELSE IF item = "Back" THEN Outcome(FALSE, async, 0, FALSE, "none")
           ELSE IF item = "async"
                THEN Outcome(TRUE, IF forked THEN "RUNNING" ELSE "FAILED", 0, TRUE, "none")
                ELSE Outcome(TRUE, async, 0, TRUE, "none")
      [] kind = "ThroughputServerScreen" ->
           Outcome(FALSE, async, 0, item # "Back", "none")
      [] OTHER -> Outcome(FALSE, async, 0, FALSE, "none")

\* the state change a handler's answer stands for
ApplyOutcome(o, w, dr) ==
    /\ IF o.stamp
       THEN UpdateActivityTimestampCall(w, dr)
       ELSE UNCHANGED <<displayVars, serialVars>>
    /\ m_asyncState' = o.async
    /\ enterCalls' = enterCalls + o.enters + (IF o.launch # "none" THEN 1 ELSE 0)
    /\ LET kept == IF stack = <<>> THEN stack
                   ELSE [stack EXCEPT ![Len(stack)].moduleRunning = o.running]
       IN  stack' = IF o.launch # "none" THEN Append(kept, Frame(o.launch)) ELSE kept
    /\ loopPc' = IF o.launch # "none" THEN "top" ELSE "input"

\* MicroPanel.cpp:154-166: with auto-detect and no device found, initialize()
\* waits for the device
InitializeWait(cfg) ==
    /\ loopPc = "init"
    /\ cfg.autoDetect /\ ~devicePresent
    /\ m_config' = cfg
    /\ reconnectAttempts' = 0
    /\ loopPc' = "waitInit"
    /\ UNCHANGED <<screenVars, workerVars, clock, inputVars, serialVars, displayVars, monitorVars, m_running, stack,
                   rotateAt, enterCalls, exitCalls, m_asyncState, inputFdOpen, lastPeriodicCheck>>

\* MicroPanel.cpp:145-250 and 633-647: the configuration is taken and the
\* devices are found, power save is enabled when configured (line 244), the
\* removal monitor is started (641) and the running flag set (647)
Run(cfg, w, dr) ==
    /\ \/ loopPc = "init" /\ (cfg.autoDetect => devicePresent)
       \/ loopPc = "detected" /\ cfg = m_config
    /\ m_config' = cfg
    /\ IF cfg.powerSaveEnabled
       THEN EnablePowerSaveCall(TRUE, w, dr)
       ELSE UNCHANGED <<displayVars, serialVars>>
    /\ StartDisconnectionMonitorCall
    /\ m_running' = TRUE
    /\ loopPc' = "top"
    /\ UNCHANGED <<screenVars, workerVars, clock, inputVars, waitVars, devicePresent, stack, rotateAt, enterCalls,
                   exitCalls, m_asyncState>>

\* MicroPanel.cpp:655-656: the removal monitor or the display back-end has
\* flagged the device as gone
DisconnectionDetected == m_deviceDisconnected \/ m_disconnected

\* line 660 with reconnection tried in every configuration
TriesReconnectAlways(cfg) == TRUE

\* line 660: reconnection is tried only in auto-detect mode
TriesReconnect(cfg) == cfg.autoDetect

\* MicroPanel.cpp:655-673,725: the main loop finds the device gone; in
\* auto-detect mode it closes both devices and stops the monitor, otherwise
\* it leaves the loop
MainDisconnect(w, dr) ==
    /\ loopPc = "top" /\ stack = <<>>
    /\ m_running
    /\ DisconnectionDetected
    /\ IF TriesReconnect(m_config)
       THEN /\ inputFdOpen' = FALSE
            /\ SerialCloseCall(w, dr)
            /\ IF m_monitorThreadRunning
               THEN StopDisconnectionMonitorCall
               ELSE UNCHANGED <<m_deviceDisconnected, m_monitorThreadRunning, monitors>>
            /\ loopPc' = IF m_monitorThreadRunning THEN "joinRun" ELSE "waitRun"
            /\ reconnectAttempts' = 0
       ELSE /\ loopPc' = "stopped"
            /\ UNCHANGED <<serialVars, inputFdOpen, reconnectAttempts, m_deviceDisconnected,
                           m_monitorThreadRunning, monitors>>
    /\ UNCHANGED <<screenVars, workerVars, clock, inputVars, displayVars, devicePresent, lastPeriodicCheck, m_config,
                   m_running, stack, rotateAt, enterCalls, exitCalls, m_asyncState>>

\* DeviceManager.cpp:364-366: m_monitorThread.join() returns
JoinDone ==
    /\ loopPc \in {"joinRun", "joinShutdown"}
    /\ JoinReady(TRUE, monitors)
    /\ monitors' = Joined(monitors)
    /\ loopPc' = IF loopPc = "joinRun" THEN "waitRun" ELSE "exited"
    /\ UNCHANGED <<screenVars, workerVars, clock, inputVars, serialVars, displayVars, waitVars, m_deviceDisconnected,
                   m_monitorThreadRunning, devicePresent, m_config, m_running, stack, rotateAt,
                   enterCalls, exitCalls, m_asyncState>>

UDEV_POLL_TIMEOUT == 100

WaitSleepUs == 1000000

PeriodicCheckSec == 5

maxReconnectAttempts == 30

\* DeviceManager.cpp:245: the loop condition of monitorDeviceUntilConnected
WaitGoesOn(running, attempts) == running

\* DeviceManager.cpp:245-348: one iteration of monitorDeviceUntilConnected, or
\* its return; found: the device is seen by checkDevicePresent() (first thing
\* in the iteration, after an add event, or in the periodic check)
WaitIteration(limit) ==
    /\ loopPc \in {"waitInit", "waitRun"}
    /\ IF ~WaitGoesOn(m_running, reconnectAttempts)
       THEN /\ loopPc' = IF loopPc = "waitInit" THEN "exited" ELSE "stopped"
            /\ UNCHANGED <<clock, reconnectAttempts, lastPeriodicCheck>>
       ELSE IF devicePresent
       THEN /\ loopPc' = IF loopPc = "waitInit" THEN "detected" ELSE "reopen"
            /\ UNCHANGED <<clock, reconnectAttempts, lastPeriodicCheck>>
       ELSE /\ ElapsedUs(StartTime, clock) + UDEV_POLL_TIMEOUT * 1000 + WaitSleepUs <= limit
            /\ LET now == TimeAfter(clock, UDEV_POLL_TIMEOUT * 1000)
                   due == now.tv_sec - lastPeriodicCheck >= PeriodicCheckSec
               IN  /\ lastPeriodicCheck' = IF due THEN now.tv_sec ELSE lastPeriodicCheck
                   /\ reconnectAttempts' = IF due THEN reconnectAttempts + 1
                                           ELSE reconnectAttempts
            /\ clock' = TimeAfter(clock, UDEV_POLL_TIMEOUT * 1000 + WaitSleepUs)
            /\ UNCHANGED loopPc
    /\ UNCHANGED <<screenVars, workerVars, inputVars, serialVars, displayVars, monitorVars, inputFdOpen, m_config,
                   m_running, stack, rotateAt, enterCalls, exitCalls, m_asyncState>>

\* MicroPanel.cpp:678-725: after the wait the device nodes are looked up and
\* opened again; on success a new Display is made (Display.cpp:8-13), power
\* save enabled when configured, the root menu set up and drawn (630), the
\* monitor started and the loop continued; on any failure the loop is left
Reconnect(found, inputOk, displayOk) ==
    /\ loopPc = "reopen"
    /\ Len(monitors) < MaxMonitors
    /\ IF found
       THEN /\ inputFdOpen' = inputOk
            /\ IF inputOk
               THEN /\ serialFdOpen' = displayOk
                    /\ serialOp' = NoOp("open")
               ELSE UNCHANGED <<serialFdOpen, serialOp>>
            /\ m_disconnected' = FALSE
            /\ m_cmdBuffer' = [bytes |-> <<>>, lastFlush |-> clock]
            /\ UNCHANGED <<m_mutex, serialPc>>
       ELSE UNCHANGED <<inputFdOpen, serialVars>>
    /\ IF found /\ inputOk /\ displayOk
       THEN /\ m_poweredOn' = TRUE
            /\ m_powerSaveEnabled' = m_config.powerSaveEnabled
            /\ m_powerSaveActivated' = FALSE
            /\ m_lastActivityTime' = clock
            /\ displayOp' = [name |-> "render", changedPower |-> FALSE]
            /\ StartDisconnectionMonitorCall
            /\ loopPc' = "top"
       ELSE /\ loopPc' = "stopped"
            /\ UNCHANGED <<displayVars, m_deviceDisconnected, m_monitorThreadRunning, monitors>>
    /\ UNCHANGED <<screenVars, workerVars, clock, inputVars, devicePresent, reconnectAttempts, lastPeriodicCheck,
                   m_config, m_running, stack, rotateAt, enterCalls, exitCalls, m_asyncState>>

\* MicroPanel.cpp:785-791: shutdown() stops the removal monitor
Shutdown ==
    /\ loopPc = "stopped"
    /\ IF m_monitorThreadRunning
       THEN StopDisconnectionMonitorCall
       ELSE UNCHANGED <<m_deviceDisconnected, m_monitorThreadRunning, monitors>>
    /\ loopPc' = IF m_monitorThreadRunning THEN "joinShutdown" ELSE "exited"
    /\ UNCHANGED <<screenVars, workerVars, clock, inputVars, serialVars, displayVars, waitVars, devicePresent, m_config,
                   m_running, stack, rotateAt, enterCalls, exitCalls, m_asyncState>>

\* MicroPanel.cpp:653-656,729: an iteration of the main loop begins with the
\* device connected, and the input source is polled
MainTickBegin ==
    /\ loopPc = "top" /\ stack = <<>>
    /\ m_running
    /\ ~DisconnectionDetected
    /\ loopPc' = "input"
    /\ rotateAt' = ZeroTime
    /\ UNCHANGED <<screenVars, workerVars, clock, inputVars, monitorVars, waitVars, serialVars, displayVars, m_config, m_running, stack,
                   enterCalls, exitCalls, m_asyncState>>

\* MicroPanel.cpp:731-757 and 562-591: the main loop hands an input to the root
\* menu; the button runs the selected module under runModuleWithGPIOInput
\* (lines 871-903, module->enter())
MainCall(c, kind, w, dr) ==
    /\ loopPc = "input" /\ stack = <<>>
    /\ IF c.kind = "Rotate"
       THEN /\ ApplyOutcome(Outcome(MenuStampsActivity, m_asyncState, 0, TRUE, "none"), w, dr)
            /\ rotateAt' = clock
       ELSE /\ m_config.useGPIOMode
            /\ enterCalls < MaxEnterCalls
            /\ ApplyOutcome(Outcome(MenuStampsActivity, m_asyncState, 0, TRUE, kind), w, dr)
            /\ UNCHANGED rotateAt
    /\ UNCHANGED <<screenVars, workerVars, clock, inputVars, monitorVars, waitVars, m_config, m_running, exitCalls>>

\* MicroPanel.cpp:759-780: the end of a main-loop iteration
MainTickEnd(w, dr) ==
    /\ loopPc = "input" /\ stack = <<>>
    /\ IF m_config.powerSaveEnabled
       THEN CheckPowerSaveTimeoutCall(w, dr)
       ELSE UNCHANGED <<displayVars, serialVars>>
    /\ loopPc' = "top"
    /\ UNCHANGED <<screenVars, workerVars, clock, inputVars, monitorVars, waitVars, m_config, m_running, stack, rotateAt, enterCalls,
                   exitCalls, m_asyncState>>

\* MicroPanel.cpp:890-893: an iteration of runModuleWithGPIOInput begins
ModuleTickBegin ==
    /\ loopPc = "top" /\ stack # <<>>
    /\ Top.moduleRunning /\ m_running
    /\ loopPc' = "input"
    /\ rotateAt' = ZeroTime
    /\ UNCHANGED <<screenVars, workerVars, clock, inputVars, monitorVars, waitVars, serialVars, displayVars, m_config, m_running, stack,
                   enterCalls, exitCalls, m_asyncState>>

\* MicroPanel.cpp:893-991: a GPIO input is handed to the active module
ModuleCall(c, item, forked, w, dr) ==
    /\ loopPc = "input" /\ stack # <<>>
    /\ IF c.kind = "Rotate"
       THEN /\ ApplyOutcome(RotationOutcome(Top.kind, m_asyncState), w, dr)
            /\ rotateAt' = clock
       ELSE /\ item \in ItemsOf(Top.kind)
            /\ LET o == ButtonOutcome(Top.kind, m_asyncState, item, forked)
               IN  /\ o.launch # "none" => (Len(stack) < MaxDepth /\ enterCalls < MaxEnterCalls)
                   /\ (o.async # m_asyncState /\ m_asyncState = "IDLE")
                         => enterCalls < MaxEnterCalls
                   /\ ApplyOutcome(o, w, dr)
            /\ UNCHANGED rotateAt
    /\ UNCHANGED <<screenVars, workerVars, clock, inputVars, monitorVars, waitVars, m_config, m_running, exitCalls>>

\* what checkAsyncCompletion() / the timeout test can find
\* (GenericListScreen.cpp:585,692,694,704)
AsyncResults == {"RUNNING", "COMPLETED", "FAILED", "TIMEOUT"}

\* MicroPanel.cpp:994-1014: module->update(), the encoder poll of a text box
\* (TextBoxScreen.cpp:53-113, any input leaves the screen), the delay
ModuleTickEnd(result, enc) ==
    /\ loopPc = "input" /\ stack # <<>>
    /\ m_asyncState' = IF Top.kind = "GenericListScreen" /\ m_asyncState = "RUNNING"
                       THEN result ELSE m_asyncState
    /\ IF Top.kind = "TextBoxScreen" /\ enc.kind # "none"
       THEN /\ stack' = [stack EXCEPT ![Len(stack)].moduleRunning = FALSE]
            /\ rotateAt' = IF enc.kind = "Rotate" THEN clock ELSE rotateAt
       ELSE UNCHANGED <<stack, rotateAt>>
    /\ loopPc' = "top"
    /\ UNCHANGED <<screenVars, workerVars, clock, inputVars, monitorVars, waitVars, serialVars, displayVars, m_config, m_running,
                   enterCalls, exitCalls>>

\* MicroPanel.cpp:890,1018-1021: the loop condition fails, module->exit(), and
\* control returns into the callback that launched the module
ModuleExit ==
    /\ loopPc = "top" /\ stack # <<>>
    /\ ~(Top.moduleRunning /\ m_running)
    /\ exitCalls' = exitCalls + 1
    /\ stack' = SubSeq(stack, 1, Len(stack) - 1)
    /\ loopPc' = "input"
    /\ UNCHANGED <<screenVars, workerVars, clock, inputVars, monitorVars, waitVars, serialVars, displayVars, m_config, m_running, rotateAt,
                   enterCalls, m_asyncState>>

\* MicroPanel.cpp:24-31: a fatal signal clears the running flag
SignalHandler ==
    /\ m_running
    /\ m_running' = FALSE
    /\ UNCHANGED <<screenVars, workerVars, clock, inputVars, monitorVars, waitVars, serialVars, displayVars, m_config, stack, loopPc, rotateAt,
                   enterCalls, exitCalls, m_asyncState>>

\* MicroPanel.cpp:653,782-: the main loop ends
MainLoopEnd ==
    /\ loopPc = "top" /\ stack = <<>>
    /\ ~m_running
    /\ loopPc' = "stopped"
    /\ UNCHANGED <<screenVars, workerVars, clock, inputVars, monitorVars, waitVars, serialVars, displayVars, m_config, m_running, stack,
                   rotateAt, enterCalls, exitCalls, m_asyncState>>

\* MicroPanel.cpp:778,1014: usleep(Config::MAIN_LOOP_DELAY) and the blocking
\* polls; time passes between two iterations
LoopDelay(us) ==
    /\ loopPc = "top"
    /\ Tick(us, MaxLoopUs)

(***************************************************************************)
(* Worker threads: ThroughputServerScreen::startServer and                 *)
(* PersistentStorage::scheduleSave                                         *)
(***************************************************************************)
\* the member variables followed across threads
SharedNames == {"m_serverPid", "m_savePending", "m_isDirty", "m_data"}

\* thread t reads or writes the variables in S
Touch(S, t) == [v \in SharedNames |-> IF v \in S THEN touched[v] \cup {t} ELSE touched[v]]

\* ThroughputServerScreen.cpp:461-484: the part of stopServer() about iperf3
StopServerCall(pid) ==
    IF pid > 0 THEN [pid |-> -1, children |-> children \ {pid}]
    ELSE [pid |-> pid, children |-> children]

\* ThroughputServerScreen.cpp:313-403: startServer() stops a running server
\* and starts a thread, detached at once, that will fork iperf3
StartServer ==
    /\ Len(serverThreads) < MaxServerThreads
    /\ LET r == StopServerCall(m_serverPid)
       IN  /\ m_serverPid' = r.pid
           /\ children' = r.children
    /\ serverThreads' = Append(serverThreads, "spawned")
    /\ touched' = Touch({"m_serverPid"}, "main")
    /\ UNCHANGED <<clock, inputVars, serialVars, displayVars, loopVars, monitorVars, waitVars, screenVars,
                   m_savePending, m_isDirty, saveThreads>>

\* ThroughputServerScreen.cpp:336-401: the thread forks; in the parent it
\* stores the child's pid and blocks in waitpid(pid, &status, 0)
ServerThreadFork(i, ok) ==
    /\ i \in DOMAIN serverThreads /\ serverThreads[i] = "spawned"
    /\ IF ok
       THEN /\ m_serverPid' = i
            /\ children' = children \cup {i}
            /\ serverThreads' = [serverThreads EXCEPT ![i] = "waitpid"]
            /\ touched' = Touch({"m_serverPid"}, "server thread")
       ELSE /\ serverThreads' = [serverThreads EXCEPT ![i] = "done"]
            /\ UNCHANGED <<m_serverPid, children, touched>>
    /\ UNCHANGED <<clock, inputVars, serialVars, displayVars, loopVars, monitorVars, waitVars, screenVars,
                   m_savePending, m_isDirty, saveThreads>>

\* ThroughputServerScreen.cpp:383-395: waitpid returns once the child is gone
\* and the thread resets the pid
ServerThreadReap(i) ==
    /\ i \in DOMAIN serverThreads /\ serverThreads[i] = "waitpid"
    /\ i \notin children
    /\ m_serverPid' = -1
    /\ serverThreads' = [serverThreads EXCEPT ![i] = "done"]
    /\ touched' = Touch({"m_serverPid"}, "server thread")
    /\ UNCHANGED <<clock, inputVars, serialVars, displayVars, loopVars, monitorVars, waitVars, screenVars,
                   children, m_savePending, m_isDirty, saveThreads>>

\* iperf3 ends by itself
ChildExits(i) ==
    /\ i \in children
    /\ children' = children \ {i}
    /\ UNCHANGED <<clock, inputVars, serialVars, displayVars, loopVars, monitorVars, waitVars, screenVars,
                   m_serverPid, serverThreads, m_savePending, m_isDirty, saveThreads, touched>>

\* ThroughputServerScreen.cpp:441-485: stopServer() called from the UI
StopServer ==
    /\ LET r == StopServerCall(m_serverPid)
       IN  /\ m_serverPid' = r.pid
           /\ children' = r.children
    /\ touched' = Touch({"m_serverPid"}, "main")
    /\ UNCHANGED <<clock, inputVars, serialVars, displayVars, loopVars, monitorVars, waitVars, screenVars,
                   serverThreads, m_savePending, m_isDirty, saveThreads>>

\* PersistentStorage.cpp:225-245 and 200-218: setValue() changes the data
\* under m_mutex and schedules a save: unless one is pending, a detached
\* thread is started
SetValue ==
    /\ m_isDirty' = TRUE
    /\ IF m_savePending
       THEN UNCHANGED <<m_savePending, saveThreads>>
       ELSE /\ Len(saveThreads) < MaxSaveThreads
            /\ m_savePending' = TRUE
            /\ saveThreads' = Append(saveThreads, "sleeping")
    /\ touched' = Touch({"m_data", "m_isDirty", "m_savePending"}, "main")
    /\ UNCHANGED <<clock, inputVars, serialVars, displayVars, loopVars, monitorVars, waitVars, screenVars,
                   m_serverPid, serverThreads, children>>

\* PersistentStorage.cpp:220-222: cancelScheduledSave()
CancelScheduledSave ==
    /\ m_savePending' = FALSE
    /\ touched' = Touch({"m_savePending"}, "main")
    /\ UNCHANGED <<clock, inputVars, serialVars, displayVars, loopVars, monitorVars, waitVars, screenVars,
                   m_serverPid, serverThreads, children, m_isDirty, saveThreads>>

\* PersistentStorage.cpp:209-217 and 155-193: after its 2 s sleep the thread
\* reads m_savePending and, when set, runs saveToFile(), which under m_mutex
\* writes the data out when dirty and clears both flags; written says whether
\* the file could be written
SaveThreadRun(i, written) ==
    /\ i \in DOMAIN saveThreads /\ saveThreads[i] = "sleeping"
    /\ saveThreads' = [saveThreads EXCEPT ![i] = "done"]
    /\ IF m_savePending
       THEN /\ IF m_isDirty /\ written
               THEN m_isDirty' = FALSE /\ m_savePending' = FALSE
               ELSE UNCHANGED <<m_isDirty, m_savePending>>
            /\ touched' = Touch(IF m_isDirty THEN {"m_savePending", "m_isDirty", "m_data"}
                                ELSE {"m_savePending", "m_isDirty"}, "save thread")
       ELSE /\ UNCHANGED <<m_isDirty, m_savePending>>
            /\ touched' = Touch({"m_savePending"}, "save thread")
    /\ UNCHANGED <<clock, inputVars, serialVars, displayVars, loopVars, monitorVars, waitVars, screenVars,
                   m_serverPid, serverThreads, children>>

(***************************************************************************)
(* Properties of the HID encoder source                                    *)
(***************************************************************************)
ThresholdUs == EVENT_PROCESS_THRESHOLD * 1000

\* the step that carries out lines 366-421 of a drain
EndStep == pc = "post" /\ pc' = "idle"

\* the handler calls of a drain made from accumulated encoder movement
EncoderPart(d) == SelectSeq(d, LAMBDA e : e.site = "encoder")

RECURSIVE SumSteps(_)
SumSteps(d) == IF d = <<>> THEN 0 ELSE Head(d).steps + SumSteps(Tail(d))

\* C1: whenever accumulated movement is pending at a drain and paired_count >= 2
\* or more than 30 ms have passed since the last raw rotary event, that drain
\* delivers the accumulated value and resets total_rel_x, total_rel_y and
\* paired_count; stated here for the drain that reads no new rotary event.
C1_DueMovementDelivered ==
    [][(/\ EndStep
        /\ \A i \in DOMAIN readLog : readLog[i].type # EV_REL
        /\ m_state.pairedEventCount > 0
        /\ \/ m_state.pairedEventCount >= 2
           \/ ElapsedUs(m_state.lastEventTime, clock) > ThresholdUs)
       => (/\ m_state'.pairedEventCount = 0
           /\ m_state'.totalRelX = 0
           /\ m_state'.totalRelY = 0
           /\ (m_state.totalRelX # 0 \/ m_state.totalRelY # 0)
                 => EncoderPart(delivered') # <<>>)]_vars

\* at least us microseconds have passed since the last raw rotary event (or
\* there has been none yet)
RotaryQuietFor(us) ==
    \/ m_state.lastEventTime = ZeroTime
    \/ ElapsedUs(m_state.lastEventTime, clock) >= us

\* C2 as stated: every Rotate handed to the handler, from a key or from the
\* encoder, is handed over only when at least 2 raw rotary events were
\* accumulated or at least 30 ms have passed since the last raw rotary event.
C2_EveryRotateResolved ==
    [][(\E i \in DOMAIN delivered' :
            /\ i > Len(delivered)
            /\ delivered'[i].kind = "Rotate")
       => (m_state.pairedEventCount >= 2 \/ RotaryQuietFor(ThresholdUs))]_vars

\* C2 amended: every Rotate made from accumulated encoder movement is handed
\* over only when at least 2 raw rotary events were accumulated or at least
\* 30 ms have passed since the last raw rotary event.
C2_EncoderRotateResolved ==
    [][(EndStep /\ EncoderPart(delivered') # <<>>)
       => (m_state.pairedEventCount >= 2 \/ RotaryQuietFor(ThresholdUs))]_vars

\* a drain has delivered the movement of a single raw rotary event
C2_Witness ==
    /\ pc = "idle"
    /\ EncoderPart(delivered) # <<>>
    /\ Cardinality({i \in DOMAIN readLog : readLog[i].type = EV_REL}) = 1
    /\ SumSteps(EncoderPart(delivered)) \in {1, -1}

\* a drain is delivering: it ends with the tracking state reset
DeliveryStep == EndStep /\ m_state.pairedEventCount > 0 /\ m_state'.pairedEventCount = 0

\* C3 as stated: a delivery of accumulated movement calls the rotation handler
\* exactly once, with total_rel_x + (-total_rel_y), and leaves the three
\* tracking fields zero.
C3_OneCallWithSum ==
    [][(DeliveryStep /\ (m_state.totalRelX # 0 \/ m_state.totalRelY # 0))
       => (/\ Len(EncoderPart(delivered')) = 1
           /\ EncoderPart(delivered')[1].steps = m_state.totalRelX + (-m_state.totalRelY)
           /\ m_state'.totalRelX = 0
           /\ m_state'.totalRelY = 0)]_vars

\* C3 amended: a delivery calls the rotation handler once per axis that moved,
\* first with total_rel_x, then with -total_rel_y; the values handed over add
\* up to total_rel_x + (-total_rel_y), and the three tracking fields end zero.
C3_OneCallPerAxis ==
    [][DeliveryStep
       => LET calls == EncoderPart(delivered')
              x == m_state.totalRelX
              y == m_state.totalRelY
          IN  /\ Len(calls) = (IF x # 0 THEN 1 ELSE 0) + (IF y # 0 THEN 1 ELSE 0)
              /\ SumSteps(calls) = x + (-y)
              /\ (x # 0 /\ y # 0) => (calls[1].steps = x /\ calls[2].steps = -y)
              /\ (y = 0 /\ x # 0) => calls = <<[kind |-> "Rotate", steps |-> x, site |-> "encoder"]>>
              /\ m_state'.pairedEventCount = 0
              /\ m_state'.totalRelX = 0
              /\ m_state'.totalRelY = 0]_vars

\* two raw REL_X +1 events, 5 ms apart, have produced exactly one Rotate(+2)
C3_Witness ==
    /\ pc = "idle"
    /\ readLog = <<[type |-> EV_REL, code |-> REL_X, value |-> 1]>>
    /\ EncoderPart(delivered) = <<[kind |-> "Rotate", steps |-> 2, site |-> "encoder"]>>
    /\ ElapsedUs(StartTime, m_state.lastEventTime) = 5000

IsKeyDown(ev) ==
    ev.type = EV_KEY /\ ev.value = 1
    /\ ev.code \in {KEY_LEFT, KEY_RIGHT, KEY_UP, KEY_DOWN, KEY_ENTER}

IsButtonDown(ev) ==
    ev.type = EV_KEY /\ ev.value = 1 /\ ev.code \in {KEY_ENTER, BTN_LEFT}

\* C4: every key-down of LEFT/UP/RIGHT/DOWN/ENTER read by a drain produces
\* exactly one normalized event, a key-up none: n key-downs give n events.
C4_OneEventPerKeyDown ==
    pc = "idle"
    => Cardinality({i \in DOMAIN delivered : delivered[i].site # "encoder"})
       = Cardinality({i \in DOMAIN readLog :
                         IsKeyDown(readLog[i]) \/ IsButtonDown(readLog[i])})

\* the raw event a handler call of the finished drain stems from: the k-th
\* arrow key-down for the k-th key Rotate, the last button press for Button,
\* the last raw rotary event for the encoder calls
SrcIndex(p) ==
    LET Max(S) == CHOOSE m \in S : \A n \in S : n <= m
        arrows == {i \in DOMAIN readLog :
                      IsKeyDown(readLog[i]) /\ readLog[i].code # KEY_ENTER}
        k == Cardinality({j \in 1..p : delivered[j].site = "key"})
    IN  IF delivered[p].site = "key"
        THEN CHOOSE i \in arrows : Cardinality({j \in arrows : j <= i}) = k
        ELSE IF delivered[p].site = "button"
        THEN Max({i \in DOMAIN readLog : IsButtonDown(readLog[i])})
        ELSE Max({i \in DOMAIN readLog : readLog[i].type = EV_REL})

\* C5: within one drain the handler calls are made in the order in which
\* their raw events were read from the device.
C5_DeliveredInReadOrder ==
    pc = "idle"
    => \A p, q \in DOMAIN delivered : p < q => SrcIndex(p) <= SrcIndex(q)

(***************************************************************************)
(* Properties of the serial back-end                                       *)
(***************************************************************************)
IsPrefix(f, bytes) == Len(f) <= Len(bytes) /\ SubSeq(bytes, 1, Len(f)) = f

\* bytes is a concatenation of whole frames of the set fs
RECURSIVE IsWholeFrames(_, _)
IsWholeFrames(bytes, fs) ==
    \/ bytes = <<>>
    \/ \E f \in fs :
          /\ IsPrefix(f, bytes)
          /\ IsWholeFrames(SubSeq(bytes, Len(f) + 1, Len(bytes)), fs)

\* C6: at every flush the bytes written to the device are a concatenation of
\* whole frames passed to bufferCommand; no frame is written only in part.
C6_FlushWritesWholeFrames ==
    (serialOp.name \in {"flushBuffer", "bufferCommand", "close"} /\ serialOp.attempted)
    => IsWholeFrames(serialOp.accepted, {DrawTextFrame(0, 16, [i \in 1..ShortText |-> 65]),
                                         DrawTextFrame(0, 24, [i \in 1..LongText |-> 65])})

\* C7: a bufferCommand whose frame does not fit flushes the buffer, appends the
\* frame and returns with the buffer lock released.
C7_AutoFlushReturns ==
    (serialOp.name = "bufferCommand" /\ serialOp.autoflush)
    => (/\ serialPc = "ready"
        /\ m_mutex = "free"
        /\ m_cmdBuffer.bytes \in {DrawTextFrame(0, 16, [i \in 1..ShortText |-> 65]),
                                  DrawTextFrame(0, 24, [i \in 1..LongText |-> 65])})

\* the step of a successful open of a closed device
ReopenStep == serialOp'.name = "open" /\ ~serialFdOpen /\ serialFdOpen'

\* C8 as stated: once disconnected is set it stays set until the device is
\* reopened, and every later sendCommand or flush returns without attempting a
\* write to the device.
C8_NoWriteAfterDisconnect ==
    [][m_disconnected
       => (/\ m_disconnected' \/ ReopenStep
           /\ serialOp'.name \in {"sendCommand", "flushBuffer"} => ~serialOp'.attempted)]_vars

\* C8 amended: once disconnected is set it stays set until the device is
\* reopened; every later sendCommand or flush still calls write() (whenever the
\* device is open and, for a flush, the buffer is not empty) and only leaves
\* out the tcdrain().
C8_LatchedAndDrainSkipped ==
    [][m_disconnected
       => (/\ m_disconnected' \/ ReopenStep
           /\ serialOp'.name \in {"sendCommand", "flushBuffer"} => ~serialOp'.drained
           /\ serialOp'.name = "sendCommand" => (serialOp'.attempted = serialFdOpen)
           /\ serialOp'.name = "flushBuffer"
                 => (serialOp'.attempted = (serialFdOpen /\ m_cmdBuffer.bytes # <<>>)))]_vars

\* a flush on a device already marked disconnected: the device took the bytes
\* and the drain was left out
C8_Witness ==
    /\ m_disconnected
    /\ serialOp.name = "flushBuffer"
    /\ serialOp.attempted
    /\ serialOp.accepted # <<>>
    /\ ~serialOp.drained

(***************************************************************************)
(* Properties of the Display power-save policy                             *)
(***************************************************************************)
\* a call of the named Display method (calls do not advance the clock)
DisplayCall(name) == displayOp'.name = name /\ clock' = clock

OffImpliesTripped == (m_powerSaveEnabled /\ ~m_poweredOn) => m_powerSaveActivated

\* C9 as stated: after any sequence of setPower, enablePowerSave,
\* updateActivityTimestamp, checkPowerSaveTimeout and resetPowerSaveActivated
\* calls, while power-save is enabled a display that is off has the tripped
\* flag set.
C9_OffImpliesTripped == OffImpliesTripped

\* C9 as amended: setPower, enablePowerSave, updateActivityTimestamp and
\* checkPowerSaveTimeout keep "enabled and off implies tripped", and every
\* step that turns the display off sets the flag; the only call that breaks
\* the implication is resetPowerSaveActivated, which clears the flag and
\* leaves the display off.
C9_OnlyResetClearsWhileOff ==
    [][/\ (m_poweredOn /\ ~m_poweredOn') => m_powerSaveActivated'
       /\ (OffImpliesTripped /\ ~OffImpliesTripped')
          => (/\ DisplayCall("resetPowerSaveActivated")
              /\ m_powerSaveActivated /\ ~m_powerSaveActivated'
              /\ ~m_poweredOn /\ ~m_poweredOn'
              /\ m_powerSaveEnabled')]_vars

\* power-save is enabled and an explicit setPower(false) has tripped the flag
C9_Witness ==
    /\ displayOp.name = "setPower" /\ displayOp.changedPower
    /\ m_powerSaveEnabled /\ ~m_poweredOn /\ m_powerSaveActivated

TimeoutUs == POWER_SAVE_TIMEOUT_SEC * UsecPerSec

PoweredOffByStep == m_poweredOn /\ ~m_poweredOn'

TickEndStep == loopPc = "input" /\ loopPc' = "top" /\ Len(stack') = Len(stack)

\* C12: a Rotate delivered during an iteration has set last_activity by the
\* time the iteration ends, whichever module is active and whichever input
\* path delivered it
C12_RotateStampsActivity ==
    [][(TickEndStep /\ rotateAt' # ZeroTime)
       => ElapsedUs(rotateAt', m_lastActivityTime') >= 0]_vars

\* C13: while a module loop is running with power save enabled, an iteration
\* that ends 10 s or more after the last activity leaves the display powered
\* off and power_save_tripped set
C13_ModuleLoopChecksTimeout ==
    [][(TickEndStep /\ stack # <<>> /\ m_config.powerSaveEnabled /\ m_powerSaveEnabled
          /\ m_poweredOn
          /\ clock.tv_sec - m_lastActivityTime'.tv_sec >= POWER_SAVE_TIMEOUT_SEC)
       => (~m_poweredOn' /\ m_powerSaveActivated')]_vars

\* the main loop, at the head of an iteration, acts on a flagged disconnection
DisconnectStep ==
    loopPc = "top" /\ stack = <<>> /\ m_running /\ DisconnectionDetected /\ loopPc' # "top"

\* both device handles are closed and the wait for the device is about to begin
ClosedForWait ==
    ~inputFdOpen' /\ ~serialFdOpen' /\ ~m_monitorThreadRunning' /\ loopPc' \in {"joinRun", "waitRun"}

\* the loop goes on at the root menu on freshly opened devices, with a new
\* monitor thread and the removal flag clear
Resumed ==
    /\ inputFdOpen' /\ serialFdOpen' /\ ~m_disconnected'
    /\ ~m_deviceDisconnected' /\ m_monitorThreadRunning'
    /\ Len(monitors') = Len(monitors) + 1 /\ monitors'[Len(monitors')] = "start"
    /\ stack' = <<>> /\ displayOp'.name = "render"

\* C14: once the removal monitor has signalled removal, the main loop at its
\* next iteration closes both handles and goes to wait for the device
C14_ReconnectsOnRemoval ==
    [][(DisconnectStep /\ m_deviceDisconnected) => ClosedForWait]_vars

\* C14 (amended): in auto-detect mode the flagged removal makes the next
\* iteration close both handles, stop the monitor and wait for the device;
\* the wait ends in a reopen only with the device present; a reopen that goes
\* back to the loop has opened both nodes, drawn the root menu, started a new
\* monitor and cleared the flag; without auto-detect the loop is left with the
\* handles untouched
C14_ReconnectsInAutoDetect ==
    [][/\ (DisconnectStep /\ m_config.autoDetect) => ClosedForWait
       /\ (DisconnectStep /\ ~m_config.autoDetect)
             => (loopPc' = "stopped" /\ UNCHANGED <<inputFdOpen, serialFdOpen, monitorVars>>)
       /\ (loopPc = "waitRun" /\ loopPc' = "reopen") => devicePresent
       /\ (loopPc = "reopen" /\ loopPc' = "top") => Resumed]_vars

\* the monitor has signalled, the handles are closed, the device is back
C14_Witness ==
    /\ loopPc = "reopen" /\ m_deviceDisconnected /\ devicePresent
    /\ ~inputFdOpen /\ ~serialFdOpen /\ m_config.autoDetect
    /\ monitors = <<"joined">>

\* C15: a module loop does not go on with a new iteration once the device has
\* been flagged as disconnected; the modules are left and the main loop
\* reconnects
C15_ModulesLeftOnDisconnect ==
    [][~(stack # <<>> /\ DisconnectionDetected /\ m_config.autoDetect
         /\ loopPc = "top" /\ loopPc' = "input" /\ stack' = stack)]_vars

\* the main loop is left: by its loop condition, by the break after the
\* disconnection test, or out of the wait for the device
LoopLeft == loopPc \in {"top", "waitRun", "reopen"} /\ loopPc' = "stopped"

\* C16: the main loop ends only with the running flag cleared or after a
\* reconnect has been attempted and has failed
C16_EndsOnSignalOrFailedReconnect ==
    [][LoopLeft => (~m_running \/ loopPc \in {"waitRun", "reopen"})]_vars

\* C16 (amended): the main loop ends only with the running flag cleared,
\* after a failed reconnect (the wait was cancelled, or the nodes were not
\* found or not opened), or on a disconnection with auto-detect disabled,
\* where no reconnect is attempted; with auto-detect disabled a disconnection
\* always ends the loop, with auto-detect enabled it always leads to the wait
C16_EndsOnSignalOrDisconnect ==
    [][/\ LoopLeft
          => \/ ~m_running
             \/ loopPc = "reopen" /\ ~(inputFdOpen' /\ serialFdOpen')
             \/ loopPc = "top" /\ DisconnectionDetected /\ ~m_config.autoDetect
                   /\ inputFdOpen' /\ serialFdOpen'
       /\ (DisconnectStep /\ ~m_config.autoDetect) => loopPc' = "stopped"
       /\ (DisconnectStep /\ m_config.autoDetect) => loopPc' \in {"joinRun", "waitRun"}]_vars

\* the loop has been left on a disconnection, auto-detect disabled, still running
C16_Witness ==
    /\ loopPc = "stopped" /\ m_running /\ ~m_config.autoDetect
    /\ m_deviceDisconnected /\ inputFdOpen /\ serialFdOpen

\* an iteration of the wait that finds no device and goes round again
WaitAgainStep == loopPc \in {"waitInit", "waitRun"} /\ loopPc' = loopPc /\ clock' # clock

\* C17: the wait for the device does not go round again once 30 periodic
\* checks have failed
C17_GivesUpAfter30Attempts ==
    [][WaitAgainStep => reconnectAttempts < maxReconnectAttempts]_vars

\* a monitor thread is started
MonitorStarted == Len(monitors') = Len(monitors) + 1

\* C18: the removal flag is raised only by a running monitor thread that finds
\* the device gone, and that thread ends with it; once raised the flag stays
\* until a monitor is started again; the main loop never begins an iteration
\* of its own with the flag raised; a monitor is started only on an empty or
\* joined thread handle, and at most one monitor thread is running at any time
C18_FlagLatchedOneMonitor ==
    /\ [](Cardinality(LiveMonitors) <= 1)
    /\ [][/\ (~m_deviceDisconnected /\ m_deviceDisconnected')
             => (/\ ~devicePresent /\ m_monitorThreadRunning
                 /\ \E i \in LiveMonitors : monitors[i] = "loop" /\ monitors'[i] = "exited")
          /\ (m_deviceDisconnected /\ ~m_deviceDisconnected') => MonitorStarted
          /\ MonitorStarted => ~Joinable
          /\ (loopPc = "top" /\ loopPc' = "input" /\ stack = <<>>) => ~m_deviceDisconnected]_vars

\* a second monitor, started after a reconnect, has raised the flag again
C18_Witness ==
    /\ Len(monitors) = 2 /\ monitors[1] = "joined" /\ monitors[2] = "exited"
    /\ m_deviceDisconnected /\ m_monitorThreadRunning /\ loopPc = "top"

\* C20: whenever the menu stack is empty, as many exit calls as enter calls
\* have been made on the modules
C20_EnterExitBalanced == stack = <<>> => enterCalls = exitCalls

(***************************************************************************)
(* Properties of the worker threads                                        *)
(***************************************************************************)
\* C19: none of the member variables followed here (none of them the removal
\* flag or a back-end's disconnected latch) is read or written by more than
\* one thread: the main thread is the only one to touch them
C19_NoOtherSharedState == \A v \in SharedNames : Cardinality(touched[v]) <= 1

(***************************************************************************)
(* MenuScreenModule: nested menus                                          *)
(* (src/src/modules/MenuScreenModule.cpp, src/src/MicroPanel.cpp)          *)
(***************************************************************************)
\* the menu modules and the other modules of the configuration followed here
MenuIds == {"menuA", "menuB", "menuC"}

LeafIds == {"leaf", "list"}

NoParent == "nullptr"

\* how many enter() calls are made in a run of the model
MaxMenuEnters == 6

\* MicroPanel.cpp:460-477: the "submenus" of each menu in the configuration
\* (menuA holds menuB, menuB holds menuC)
SubmenuItems(m) ==
    CASE m = "menuA" -> {"menuB", "leaf", "back"}
      [] m = "menuB" -> {"menuC", "invert_display", "back"}
      [] OTHER -> {"list", "back"}

\* the configurations: which menus are enabled, that is, put into the main menu
EnabledSets == {S \in SUBSET MenuIds : "menuA" \in S}

OffersMainMenuNested(parent, topLevel) == parent # NoParent

\* MenuScreenModule.cpp:148: the condition under which buildSubmenu() adds the
\* "Main Menu" item
OffersMainMenu(parent, topLevel) == parent # NoParent /\ ~topLevel

\* MenuScreenModule.cpp:103-153: the items of the menu once built
BuildSubmenu(m, parent, topLevel) ==
    SubmenuItems(m) \cup (IF OffersMainMenu(parent, topLevel) THEN {"Main Menu"} ELSE {})

\* the enter() calls made so far
EnterTotal ==
    enterCount["menuA"] + enterCount["menuB"] + enterCount["menuC"]
        + enterCount["leaf"] + enterCount["list"]

MenuTop == menuStack[Len(menuStack)]

NoRequest == [pending |-> FALSE, layers |-> {}, exits |-> [x \in MenuIds \cup LeafIds |-> 0]]

ExitFlagKept(ep, x) == ep

\* MenuScreenModule.cpp:43-44: enter() resets the exit flag of the menu
ExitFlagReset(ep, x) == [ep EXCEPT ![x] = FALSE]

\* MicroPanel.cpp:901-906 (and ScreenModule::run()): module->enter() and the
\* start of the module's loop; MenuScreenModule.cpp:24-45 for a menu.  par and
\* mm are the parent pointers and pop-to-root flags as the launcher left them
EnterCall(x, par, mm) ==
    /\ m_parentMenu' = par
    /\ m_exitToMainMenu' = IF x \in MenuIds /\ m_isTopLevelMenu[x]
                           THEN [mm EXCEPT ![x] = FALSE] ELSE mm
    /\ m_menu' = IF x \in MenuIds
                 THEN [m_menu EXCEPT ![x] = BuildSubmenu(x, par[x], m_isTopLevelMenu[x])]
                 ELSE m_menu
    /\ m_exitToParent' = IF x \in MenuIds THEN ExitFlagReset(m_exitToParent, x)
                         ELSE m_exitToParent
    /\ enterCount' = [enterCount EXCEPT ![x] = @ + 1]
    /\ entered' = entered \cup {x}
    /\ menuStack' = Append(menuStack, [id |-> x, running |-> TRUE])

\* MicroPanel.cpp:558-583 (p = NoParent: from the main menu) and
\* MenuScreenModule.cpp:218-250 (from the menu p): a menu module gets its
\* parent set and its pop-to-root flag cleared, then the module is run
Launch(x, p) ==
    LET par == IF x \in MenuIds /\ p # NoParent THEN [m_parentMenu EXCEPT ![x] = p]
               ELSE m_parentMenu
        mm  == IF x \in MenuIds THEN [m_exitToMainMenu EXCEPT ![x] = FALSE]
               ELSE m_exitToMainMenu
    IN  EnterCall(x, par, mm)

PropagatedNever(f, m, em, par) == f

\* MenuScreenModule.cpp:64-68 and 372-376: a menu that leaves for the main
\* menu sets the flag f of its parent
Propagated(f, m, em, par) ==
    IF em[m] /\ par[m] # NoParent THEN [f EXCEPT ![par[m]] = TRUE] ELSE f

\* MenuScreenModule.cpp:61-70 and 370-379: the exit test of the menu m, made on
\* the flags ep, em, with st the running modules (m innermost)
ExitCheckCall(m, ep, em, st) ==
    /\ m_exitToParent' = IF ep[m] THEN Propagated(ep, m, em, m_parentMenu) ELSE ep
    /\ m_exitToMainMenu' = IF ep[m] THEN Propagated(em, m, em, m_parentMenu) ELSE em
    /\ menuStack' = IF ep[m] THEN [st EXCEPT ![Len(st)].running = FALSE] ELSE st

\* MenuScreenModule.cpp:125-128, 149-151, 259-265: "back" and "Main Menu" set
\* the exit flags; in GPIO mode handleGPIOButtonPress() tests them at once
\* (lines 370-379), otherwise the next handleInput() does (lines 61-70)
ExitSelected(m, toMain) ==
    LET ep == [m_exitToParent EXCEPT ![m] = TRUE]
        em == [m_exitToMainMenu EXCEPT ![m] = toMain]
    IN  /\ IF useGPIOMode
           THEN ExitCheckCall(m, ep, em, menuStack)
           ELSE /\ m_exitToParent' = ep
                /\ m_exitToMainMenu' = em
                /\ UNCHANGED menuStack
        /\ popRequest' = IF toMain
                         THEN [pending |-> TRUE,
                               layers |-> {menuStack[i].id : i \in DOMAIN menuStack},
                               exits |-> exitCount]
                         ELSE popRequest
        /\ UNCHANGED <<m_parentMenu, m_menu, inverted, entered, enterCount, exitCount>>

\* MenuScreenModule.cpp:133-137: the display is inverted
InvertSelected(m) ==
    /\ inverted' = ~inverted
    /\ IF useGPIOMode
       THEN ExitCheckCall(m, m_exitToParent, m_exitToMainMenu, menuStack)
       ELSE UNCHANGED <<m_exitToParent, m_exitToMainMenu, menuStack>>
    /\ UNCHANGED <<m_parentMenu, m_menu, entered, enterCount, exitCount, popRequest>>

\* MicroPanel.cpp:511-525 (and 364-385): the configuration is loaded; the menus
\* enabled in it are marked top-level, and all menus get the input mode
LoadConfigFromJson(gpio, enabled) ==
    /\ menuPc = "config"
    /\ menuPc' = "loaded"
    /\ useGPIOMode' = gpio
    /\ m_isTopLevelMenu' = [m \in MenuIds |-> m \in enabled]
    /\ UNCHANGED <<m_exitToParent, m_exitToMainMenu, m_parentMenu, m_menu, inverted,
                   menuStack, entered, enterCount, exitCount, popRequest>>
    /\ UNCHANGED <<clock, inputVars, serialVars, displayVars, loopVars, monitorVars,
                   waitVars, workerVars, asyncVars, panelVars>>

\* the modules registerModuleInMenu() has put into the main menu
RootItems == {m \in MenuIds : m_isTopLevelMenu[m]} \cup LeafIds

\* MicroPanel.cpp:558-591: the button is pressed in the main menu on the item
\* of the module x
RootButton(x) ==
    /\ menuPc = "loaded" /\ menuStack = <<>>
    /\ x \in RootItems
    /\ EnterTotal < MaxMenuEnters
    /\ Launch(x, NoParent)
    /\ UNCHANGED <<menuPc, useGPIOMode, m_isTopLevelMenu, inverted, exitCount, popRequest>>
    /\ UNCHANGED <<clock, inputVars, serialVars, displayVars, loopVars, monitorVars,
                   waitVars, workerVars, asyncVars, panelVars>>

\* MenuScreenModule.cpp:72-84 and 359-384 (Menu::handleButtonPress() runs the
\* action of the selected item): the button is pressed in the running menu
MenuButton(item) ==
    /\ menuPc = "loaded" /\ menuStack # <<>>
    /\ MenuTop.id \in MenuIds /\ MenuTop.running
    /\ ~useGPIOMode => ~m_exitToParent[MenuTop.id]
    /\ item \in m_menu[MenuTop.id]
    /\ CASE item = "back" -> ExitSelected(MenuTop.id, FALSE)
         [] item = "Main Menu" -> ExitSelected(MenuTop.id, TRUE)
         [] item = "invert_display" -> InvertSelected(MenuTop.id)
         [] OTHER -> /\ EnterTotal < MaxMenuEnters
                     /\ Launch(item, MenuTop.id)
                     /\ UNCHANGED <<inverted, exitCount, popRequest>>
    /\ UNCHANGED <<menuPc, useGPIOMode, m_isTopLevelMenu>>
    /\ UNCHANGED <<clock, inputVars, serialVars, displayVars, loopVars, monitorVars,
                   waitVars, workerVars, asyncVars, panelVars>>

\* MenuScreenModule.cpp:59-70: without GPIO the running menu finds its exit
\* flag set at the head of handleInput() and returns false
MenuHandleInput ==
    /\ menuPc = "loaded" /\ menuStack # <<>> /\ ~useGPIOMode
    /\ MenuTop.id \in MenuIds /\ MenuTop.running
    /\ m_exitToParent[MenuTop.id]
    /\ ExitCheckCall(MenuTop.id, m_exitToParent, m_exitToMainMenu, menuStack)
    /\ UNCHANGED <<menuPc, useGPIOMode, m_isTopLevelMenu, m_parentMenu, m_menu, inverted,
                   entered, enterCount, exitCount, popRequest>>
    /\ UNCHANGED <<clock, inputVars, serialVars, displayVars, loopVars, monitorVars,
                   waitVars, workerVars, asyncVars, panelVars>>

\* MicroPanel.cpp:983-986: a module that is no menu is left by the button
LeafButton ==
    /\ menuPc = "loaded" /\ menuStack # <<>>
    /\ MenuTop.id \in LeafIds /\ MenuTop.running
    /\ menuStack' = [menuStack EXCEPT ![Len(menuStack)].running = FALSE]
    /\ UNCHANGED <<menuPc, useGPIOMode, m_isTopLevelMenu, m_exitToParent, m_exitToMainMenu,
                   m_parentMenu, m_menu, inverted, entered, enterCount, exitCount, popRequest>>
    /\ UNCHANGED <<clock, inputVars, serialVars, displayVars, loopVars, monitorVars,
                   waitVars, workerVars, asyncVars, panelVars>>

\* GenericListScreen.cpp:194,848,901: the list screen dismisses the result of
\* an async item by calling its own enter() again to redraw the list
ListRedraw ==
    /\ menuPc = "loaded" /\ menuStack # <<>>
    /\ MenuTop.id = "list" /\ MenuTop.running
    /\ EnterTotal < MaxMenuEnters
    /\ enterCount' = [enterCount EXCEPT !["list"] = @ + 1]
    /\ entered' = entered \cup {"list"}
    /\ UNCHANGED <<menuPc, useGPIOMode, m_isTopLevelMenu, m_exitToParent, m_exitToMainMenu,
                   m_parentMenu, m_menu, inverted, menuStack, exitCount, popRequest>>
    /\ UNCHANGED <<clock, inputVars, serialVars, displayVars, loopVars, monitorVars,
                   waitVars, workerVars, asyncVars, panelVars>>

ExitedNever(S, x) == S

\* MicroPanel.cpp:1018-1020: module->exit() has been called on x
Exited(S, x) == S \ {x}

\* MicroPanel.cpp:909,1018-1021 (and ScreenModule::run()): the loop of the
\* innermost module ends, module->exit() runs, and control is back in the
\* launcher: executeSubmenuAction() redraws (MenuScreenModule.cpp:252-257) and,
\* in GPIO mode, handleGPIOButtonPress() of the parent makes its exit test
MenuReturn ==
    /\ menuPc = "loaded" /\ menuStack # <<>> /\ ~MenuTop.running
    /\ exitCount' = [exitCount EXCEPT ![MenuTop.id] = @ + 1]
    /\ entered' = Exited(entered, MenuTop.id)
    /\ LET rest == SubSeq(menuStack, 1, Len(menuStack) - 1)
       IN  /\ IF rest # <<>> /\ useGPIOMode
              THEN ExitCheckCall(rest[Len(rest)].id, m_exitToParent, m_exitToMainMenu, rest)
              ELSE /\ menuStack' = rest
                   /\ UNCHANGED <<m_exitToParent, m_exitToMainMenu>>
           /\ popRequest' = IF rest = <<>> THEN NoRequest ELSE popRequest
    /\ UNCHANGED <<menuPc, useGPIOMode, m_isTopLevelMenu, m_parentMenu, m_menu, inverted,
                   enterCount>>
    /\ UNCHANGED <<clock, inputVars, serialVars, displayVars, loopVars, monitorVars,
                   waitVars, workerVars, asyncVars, panelVars>>

(***************************************************************************)
(* Properties of the nested menus                                          *)
(***************************************************************************)
\* the modules of the menu stack
OpenLayers == {menuStack[i].id : i \in DOMAIN menuStack}

\* C21 (as stated): a step taken with exactly one module entered and not yet
\* exited leaves exactly one module entered and not yet exited
C21_ExactlyOneEntered == [][Cardinality(entered) = 1 => Cardinality(entered') = 1]_vars

\* C21: the modules entered and not yet exited are exactly the modules of the
\* menu stack, one for each open layer: none in the main menu, and one more
\* for every submenu or module launched from a menu
C21_EnteredAreTheOpenLayers ==
    /\ entered = OpenLayers
    /\ Cardinality(entered) = Len(menuStack)

\* a module launched from a submenu of a submenu is active
C21_Witness ==
    /\ Len(menuStack) >= 3
    /\ MenuTop.id \in LeafIds /\ MenuTop.running
    /\ Cardinality(entered) = Len(menuStack)

\* a step taken while a choice of "Main Menu" is being carried out
PopToRootStep ==
    /\ enterCount' = enterCount
    /\ \/ OpenLayers' = OpenLayers
       \/ /\ Len(menuStack') = Len(menuStack) - 1
          /\ OpenLayers' = OpenLayers \ {MenuTop.id}
          /\ exitCount'[MenuTop.id] = exitCount[MenuTop.id] + 1
    /\ IF menuStack' = <<>>
       THEN \A x \in MenuIds \cup LeafIds :
               exitCount'[x] = popRequest.exits[x] + (IF x \in popRequest.layers THEN 1 ELSE 0)
       ELSE popRequest' = popRequest

\* C22: once "Main Menu" has been chosen in a menu d levels below the main
\* menu, no module is entered and no layer is reopened, every step that
\* changes the menu stack pops its innermost layer with one exit() call, when
\* the stack is empty each of the d layers has had exactly one exit() call
\* since the choice, and the stack does become empty; with and without GPIO
C22_PopToRoot ==
    /\ [][popRequest.pending => PopToRootStep]_vars
    /\ (popRequest.pending ~> menuStack = <<>>)

\* "Main Menu" was chosen three levels down; two layers are popped and the
\* outermost menu has been told to leave
C22_Witness ==
    /\ popRequest.pending /\ Cardinality(popRequest.layers) = 3
    /\ Len(menuStack) = 1 /\ ~MenuTop.running
    /\ m_exitToMainMenu[MenuTop.id]
    /\ \A x \in popRequest.layers \ {MenuTop.id} : exitCount[x] = popRequest.exits[x] + 1

\* the step enters the menu m
EntersMenu(m) == enterCount'[m] = enterCount[m] + 1

\* C23: a menu whose top-level flag is set never holds the "Main Menu" item,
\* whatever its parent pointer is, and whenever it is entered it is running
\* with its pop-to-root flag and its exit flag cleared; no module has more
\* exit() calls than enter() calls, and with the main menu shown no module is
\* left entered: nothing is popped beyond the main menu
C23_TopLevelNeverPopsToRoot ==
    /\ [](\A m \in MenuIds : m_isTopLevelMenu[m] => "Main Menu" \notin m_menu[m])
    /\ [](\A x \in MenuIds \cup LeafIds : exitCount[x] <= enterCount[x])
    /\ [](menuStack = <<>> => entered = {})
    /\ [][\A m \in MenuIds :
            (m_isTopLevelMenu[m] /\ EntersMenu(m))
               => /\ MenuTop'.id = m /\ MenuTop'.running
                  /\ ~m_exitToMainMenu'[m] /\ ~m_exitToParent'[m]]_vars

\* a top-level menu that has been given a parent by an earlier launch from
\* another menu is run from the main menu
C23_Witness ==
    /\ Len(menuStack) = 1 /\ MenuTop.id \in MenuIds /\ MenuTop.running
    /\ m_isTopLevelMenu[MenuTop.id]
    /\ m_parentMenu[MenuTop.id] # NoParent
    /\ enterCount[MenuTop.id] = 2

(***************************************************************************)
(* GenericListScreen: the async item and its child process                 *)
(* (src/src/modules/GenericListScreen.cpp)                                 *)
(***************************************************************************)
\* how many child processes are forked in a run of the model
MaxSpawns == 2

\* how long a run of the model lasts
MaxAsyncUs == 4500000

\* how many calls of the callback are followed
MaxCallbacks == 2

\* the time between two iterations of the module loop: the input wait and
\* the work of the iteration
AsyncTickSteps == {700000}

NoPid == -1

\* the list of the screen: two async items (without and with a log file)
\* and Back
ListItems ==
    << [title |-> "flash", action |-> "", async |-> TRUE, timeout |-> 2, log_file |-> ""],
       [title |-> "update", action |-> "", async |-> TRUE, timeout |-> 2,
        log_file |-> "update.log"],
       [title |-> "Back", action |-> "", async |-> FALSE, timeout |-> 0, log_file |-> ""] >>

\* what a child can have left in its log file when it ends
LogContents == {"none", "success", "error"}

\* a process that has not been forked yet
NoProc == [state |-> "unborn", status |-> 0, log |-> "none", waits |-> 0]

\* what the last handler did about its child: the signals it sent, the
\* waitpid() calls it made ("none", "WNOHANG", "blocking") and the time it slept
WaitOp(mode, us) ==
    [mode |-> mode, sleptUs |-> us,
     signals |-> IF us = 0 THEN <<>>
                 ELSE IF mode = "blocking" THEN <<"SIGTERM", "SIGKILL">> ELSE <<"SIGTERM">>]

\* a process that has been waited for
Reaped(proc) == [NoProc EXCEPT !.state = "reaped", !.waits = proc.waits + 1]

\* the messages of renderAsyncProgress(), as lines (lines 656-667)
TimeoutMessage == <<"Action timed-out", "Upate failed!">>

FailedMessage == <<"Update failed!">>

ForkFailedMessage == <<"Failed to start process">>

\* lines 579-580: the whole seconds since the start of the job
ElapsedSec(start, now) == TruncDiv(ElapsedUs(start, now), UsecPerSec)

\* line 582: the timeout test
TimedOut(elapsed, timeout) == elapsed >= timeout

\* lines 730-771: parseLogForCompletion(); no log file counts as success
ParseLogForCompletion(logFile, content) ==
    IF logFile = "" THEN TRUE ELSE content = "success"

DismissesNever(waiting, state) == FALSE

\* lines 178-180, 840-842, 893-895: the result of a job is on the screen and
\* waits for the user
Dismisses(waiting, state) == waiting /\ state \in {"COMPLETED", "FAILED", "TIMEOUT"}

KillSleepNone(t) == t

\* line 717: usleep(1000000) between SIGTERM and the test for SIGKILL
KillSleep(t) == TimeAfter(t, UsecPerSec)

\* MicroPanel.cpp:916 and GenericListScreen.cpp:181,209: waitForEvents(100),
\* the input wait of the loops, in microseconds
InputWaitUs == 100000

PidKept(pid) == pid

\* lines 699, 707, 726: the pid is forgotten
PidDropped(pid) == NoPid

\* line 87: the rows of the list that fit on the panel
MaxVisibleItems == 6

\* line 18: the value handed to the callback; nothing assigns it later
m_selectedValue == ""

\* ScreenModules.h:587: the id of the screen
ListId == "genericlist"

\* ScreenModules.h:576-580: the call notifyCallback() makes
CallbackCall(action, value) == [screen |-> ListId, action |-> action, value |-> value]

\* lines 217-227, 861-871: one step of the selection, up or down
MoveSelection(sel, total, direction) ==
    IF direction < 0
    THEN (IF sel > 0 THEN sel - 1 ELSE sel)
    ELSE (IF sel < total - 1 THEN sel + 1 ELSE sel)

ScrollNever(sel, first) == first

\* lines 229-234, 873-878: the window of visible rows follows the selection
ScrollTo(sel, first) ==
    IF sel < first THEN sel
    ELSE IF sel >= first + MaxVisibleItems THEN sel - MaxVisibleItems + 1
    ELSE first

\* line 171: the test made by handleInput() when the screen is about to exit
NotifiesOnExit == m_notifyOnExit /\ m_callback /\ m_callbackAction # ""

\* lines 267, 928: the test made after the action of an item has run
NotifiesAtOnce == m_callback /\ m_callbackAction # "" /\ ~m_notifyOnExit

\* lines 122-149: enter(), as far as the state followed here goes
ListEnterCall ==
    /\ m_selectedIndex' = 0
    /\ m_firstVisibleItem' = 0
    /\ m_shouldExit' = FALSE

\* lines 191-194, 845-848, 898-901: the result is dismissed
DismissCall(w, dr) ==
    /\ m_asyncState' = "IDLE"
    /\ m_asyncWaitingForUser' = FALSE
    /\ UpdateActivityTimestampCall(w, dr)
    /\ ListEnterCall
    /\ UNCHANGED <<m_asyncPid, m_asyncStartTime, m_asyncTimeout, m_asyncLogFile,
                   m_asyncResultMessage, procs, spawned, callbacks>>

\* lines 215-241, 859-885: the selection moves, within the list
NavigateCall(direction, w, dr) ==
    /\ m_selectedIndex' = MoveSelection(m_selectedIndex, Len(m_items), direction)
    /\ m_firstVisibleItem' =
           ScrollTo(MoveSelection(m_selectedIndex, Len(m_items), direction),
                    m_firstVisibleItem)
    /\ UpdateActivityTimestampCall(w, dr)
    /\ UNCHANGED <<m_asyncState, m_asyncWaitingForUser, m_shouldExit, m_asyncPid,
                   m_asyncStartTime, m_asyncTimeout, m_asyncLogFile, m_asyncResultMessage,
                   procs, spawned, callbacks>>

\* lines 506-571: startAsyncProcess(item); forked says whether fork() succeeded
StartAsyncProcessCall(item, forked) ==
    IF forked
    THEN /\ spawned' = spawned + 1
         /\ m_asyncPid' = spawned + 1
         /\ procs' = [procs EXCEPT ![spawned + 1] = [NoProc EXCEPT !.state = "running"]]
         /\ m_asyncState' = "RUNNING"
         /\ m_asyncStartTime' = clock
         /\ m_asyncLogFile' = item.log_file
         /\ m_asyncTimeout' = item.timeout
         /\ m_asyncWaitingForUser' = FALSE
         /\ UNCHANGED m_asyncResultMessage
    ELSE /\ m_asyncPid' = NoPid
         /\ m_asyncState' = "FAILED"
         /\ m_asyncResultMessage' = ForkFailedMessage
         /\ m_asyncWaitingForUser' = TRUE
         /\ UNCHANGED <<spawned, procs, m_asyncStartTime, m_asyncLogFile, m_asyncTimeout>>

\* lines 250-274 and 911-937: the button on the selected item; Back makes the
\* module leave; the encoder callback has stamped the activity before (line
\* 246), the GPIO handler stamps it at its end unless the item is Back
SelectCall(forked, w, dr) ==
    LET item == m_items[m_selectedIndex + 1]
    IN  /\ IF item.title = "Back"
           THEN /\ m_shouldExit' = TRUE
                /\ UNCHANGED <<m_asyncState, m_asyncWaitingForUser, m_asyncPid,
                               m_asyncStartTime, m_asyncTimeout, m_asyncLogFile,
                               m_asyncResultMessage, procs, spawned, callbacks>>
           ELSE IF item.async
           THEN /\ StartAsyncProcessCall(item, forked)
                /\ UNCHANGED <<m_shouldExit, callbacks>>
           ELSE /\ callbacks' = IF item.action # "" /\ NotifiesAtOnce
                                 THEN Append(callbacks,
                                             CallbackCall(m_callbackAction, m_selectedValue))
                                 ELSE callbacks
                /\ UNCHANGED <<m_shouldExit, m_asyncState, m_asyncWaitingForUser, m_asyncPid,
                               m_asyncStartTime, m_asyncTimeout, m_asyncLogFile,
                               m_asyncResultMessage, procs, spawned>>
        /\ IF item.title = "Back" /\ useGPIOMode
           THEN UNCHANGED <<displayVars, serialVars>>
           ELSE UpdateActivityTimestampCall(w, dr)
        /\ UNCHANGED <<m_selectedIndex, m_firstVisibleItem>>

\* MicroPanel.cpp:901-906: the list screen is launched
ListEnter ==
    /\ menuPc = "loaded" /\ listPc \in {"none", "left"}
    /\ m_running
    /\ listPc' = "active"
    /\ ListEnterCall
    /\ waitOp' = WaitOp("none", 0)
    /\ UNCHANGED <<m_asyncState, m_asyncWaitingForUser, m_asyncPid, m_asyncStartTime,
                   m_asyncTimeout, m_asyncLogFile, m_asyncResultMessage, procs, spawned,
                   lastInput, listConfigVars, callbacks>>
    /\ UNCHANGED <<clock, inputVars, serialVars, displayVars, menuVars, panelVars, monitorVars,
                   waitVars, workerVars, m_config, m_running, stack, loopPc, rotateAt,
                   enterCalls, exitCalls>>

\* lines 177-278 (handleInput), 836-886 (handleGPIORotation) and 888-938
\* (handleGPIOButtonPress): one input is handed to the list screen
ListInput(c, forked, w, dr) ==
    /\ listPc = "active" /\ ~m_shouldExit
    /\ useGPIOMode => m_running
    /\ IF Dismisses(m_asyncWaitingForUser, m_asyncState)
       THEN DismissCall(w, dr)
       ELSE IF m_asyncState = "RUNNING"
       THEN UNCHANGED <<m_asyncState, m_asyncWaitingForUser, m_shouldExit, m_asyncPid,
                        m_asyncStartTime, m_asyncTimeout, m_asyncLogFile,
                        m_asyncResultMessage, procs, spawned, m_selectedIndex,
                        m_firstVisibleItem, callbacks, displayVars, serialVars>>
       ELSE IF c.kind = "Rotate"
       THEN NavigateCall(c.steps, w, dr)
       ELSE /\ m_items[m_selectedIndex + 1].async => spawned < MaxSpawns
            /\ Len(callbacks) < MaxCallbacks
            /\ SelectCall(forked, w, dr)
    /\ waitOp' = WaitOp("none", 0)
    /\ lastInput' = [kind |-> c.kind, n |-> 1 - lastInput.n]
    /\ UNCHANGED <<listPc, listConfigVars>>
    /\ UNCHANGED <<clock, inputVars, menuVars, panelVars, monitorVars, waitVars, workerVars,
                   m_config, m_running, stack, loopPc, rotateAt, enterCalls, exitCalls>>

\* a running child ends by itself with the exit status given, having left
\* the content given in its log file
AsyncChildExits(p, status, content) ==
    /\ procs[p].state = "running"
    /\ procs' = [procs EXCEPT ![p].state = "zombie", ![p].status = status,
                              ![p].log = content]
    /\ UNCHANGED <<listPc, m_selectedIndex, m_shouldExit, m_asyncPid, m_asyncWaitingForUser,
                   m_asyncStartTime, m_asyncTimeout, m_asyncLogFile, m_asyncResultMessage,
                   spawned, waitOp, lastInput, listConfigVars, m_firstVisibleItem, callbacks>>
    /\ UNCHANGED <<clock, inputVars, serialVars, displayVars, menuVars, panelVars, loopVars,
                   monitorVars, waitVars, workerVars>>

\* lines 151-156 and 573-592: update() of a running job.  checkAsyncCompletion()
\* (676-710) reaps a child that has ended and takes the result from the log;
\* otherwise the timeout test (582) may call killAsyncProcess() (712-728):
\* SIGTERM, a sleep of one second, SIGKILL for a child that is still alive
\* (diesOnTerm says it is not), and a wait for it
ListUpdate(diesOnTerm) ==
    /\ listPc = "active" /\ m_asyncState = "RUNNING"
    /\ useGPIOMode => m_running
    /\ LET p == m_asyncPid
           done == p > 0 /\ procs[p].state = "zombie"
           late == TimedOut(ElapsedSec(m_asyncStartTime, clock), m_asyncTimeout)
       IN  IF done
           THEN /\ procs' = [procs EXCEPT ![p] = Reaped(@)]
                /\ m_asyncState' = IF ParseLogForCompletion(m_asyncLogFile, procs[p].log)
                                   THEN "COMPLETED" ELSE "FAILED"
                /\ m_asyncResultMessage' = IF ParseLogForCompletion(m_asyncLogFile, procs[p].log)
                                           THEN m_asyncResultMessage ELSE FailedMessage
                /\ m_asyncWaitingForUser' = TRUE
                /\ m_asyncPid' = PidDropped(p)
                /\ waitOp' = WaitOp("WNOHANG", 0)
                /\ UNCHANGED clock
           ELSE IF late
           THEN /\ IF p > 0
                   THEN /\ procs' = [procs EXCEPT ![p] = Reaped(@)]
                        /\ m_asyncPid' = PidDropped(p)
                        /\ clock' = KillSleep(clock)
                        /\ waitOp' = WaitOp(IF diesOnTerm THEN "WNOHANG" ELSE "blocking",
                                            UsecPerSec)
                   ELSE /\ UNCHANGED <<procs, m_asyncPid, clock>>
                        /\ waitOp' = WaitOp("none", 0)
                /\ m_asyncState' = "TIMEOUT"
                /\ m_asyncResultMessage' = TimeoutMessage
                /\ m_asyncWaitingForUser' = TRUE
           ELSE /\ waitOp' = WaitOp(IF p > 0 THEN "WNOHANG" ELSE "none", 0)
                /\ UNCHANGED <<procs, m_asyncState, m_asyncResultMessage,
                               m_asyncWaitingForUser, m_asyncPid, clock>>
    /\ UNCHANGED <<listPc, m_selectedIndex, m_shouldExit, m_asyncStartTime, m_asyncTimeout,
                   m_asyncLogFile, spawned, lastInput, listConfigVars, m_firstVisibleItem,
                   callbacks>>
    /\ UNCHANGED <<inputVars, serialVars, displayVars, menuVars, panelVars, monitorVars, waitVars,
                   workerVars, m_config, m_running, stack, loopPc, rotateAt, enterCalls,
                   exitCalls>>

\* lines 158-165 (exit()) after the module loop has ended: handleInput() has
\* returned false (169-175), handleGPIOButtonPress() has (916-918), or the
\* running flag of MicroPanel is cleared (MicroPanel.cpp:909).  The call of
\* handleInput() that returns false is the one that notifies the callback
\* (171-173); the GPIO loop (MicroPanel.cpp:909-1016) never calls handleInput()
ListLeave ==
    /\ listPc = "active"
    /\ m_shouldExit \/ (useGPIOMode /\ ~m_running)
    /\ listPc' = "left"
    /\ waitOp' = WaitOp("none", 0)
    /\ callbacks' = IF ~useGPIOMode /\ NotifiesOnExit
                    THEN Append(callbacks, CallbackCall(m_callbackAction, m_selectedValue))
                    ELSE callbacks
    /\ UNCHANGED <<m_selectedIndex, m_shouldExit, m_asyncPid, m_asyncWaitingForUser,
                   m_asyncStartTime, m_asyncTimeout, m_asyncLogFile, m_asyncResultMessage,
                   procs, spawned, lastInput, listConfigVars, m_firstVisibleItem>>
    /\ UNCHANGED <<clock, inputVars, serialVars, displayVars, menuVars, panelVars, loopVars,
                   monitorVars, waitVars, workerVars>>

\* the longest list that is configured
MaxListItems == 8

\* an item that runs a shell command, and the item that leaves the screen
PlainItem == [title |-> "item", action |-> "cmd", async |-> FALSE, timeout |-> 300,
              log_file |-> ""]

BackItem == [title |-> "Back", action |-> "", async |-> FALSE, timeout |-> 300,
             log_file |-> ""]

\* a list of n items that ends with Back
PlainList(n) == [i \in 1..n |-> IF i = n THEN BackItem ELSE PlainItem]

\* the values of "callback_action" in a configuration
CallbackActions == {"", "refresh"}

\* lines 27-120: setConfig() of a screen that has not been entered yet: the
\* items, notify_on_exit and callback_action
ListSetConfig(items, notify, action) ==
    /\ listPc = "none"
    /\ m_items' = items
    /\ m_notifyOnExit' = notify
    /\ m_callbackAction' = action
    /\ UNCHANGED <<listPc, m_selectedIndex, m_shouldExit, m_asyncPid, m_asyncWaitingForUser,
                   m_asyncStartTime, m_asyncTimeout, m_asyncLogFile, m_asyncResultMessage,
                   procs, spawned, waitOp, lastInput, m_firstVisibleItem, m_callback,
                   callbacks>>
    /\ UNCHANGED <<clock, inputVars, serialVars, displayVars, menuVars, panelVars, loopVars,
                   monitorVars, waitVars, workerVars>>

\* ScreenModules.h:574 and MenuScreenModule.cpp:225: the menu that hosts the
\* screen attaches itself as the callback
ListSetCallback ==
    /\ listPc = "none" /\ ~m_callback
    /\ m_callback' = TRUE
    /\ UNCHANGED <<listPc, m_selectedIndex, m_shouldExit, m_asyncPid, m_asyncWaitingForUser,
                   m_asyncStartTime, m_asyncTimeout, m_asyncLogFile, m_asyncResultMessage,
                   procs, spawned, waitOp, lastInput, m_firstVisibleItem, m_items,
                   m_notifyOnExit, m_callbackAction, callbacks>>
    /\ UNCHANGED <<clock, inputVars, serialVars, displayVars, menuVars, panelVars, loopVars,
                   monitorVars, waitVars, workerVars>>

(***************************************************************************)
(* Properties of the async items of the list screen                        *)
(***************************************************************************)
\* C24: between any two operations of the list screen a child pid is
\* recorded exactly when the job is RUNNING, and the pid recorded is that of
\* a child forked and not yet waited for
C24_PidIffRunning ==
    /\ (m_asyncPid > 0) <=> (m_asyncState = "RUNNING")
    /\ m_asyncPid > 0 => (m_asyncPid <= spawned /\ procs[m_asyncPid].state \in {"running", "zombie"})

\* a second job runs after the first one has ended and has been dismissed
C24_Witness ==
    /\ m_asyncState = "RUNNING" /\ m_asyncPid = 2
    /\ procs[1].state = "reaped"

\* the children forked so far
Spawned == 1..spawned

\* C25: no child is waited for twice, and once the list screen has been left
\* every child it forked has been waited for
C25_EveryChildReapedOnce ==
    /\ \A p \in Spawned : procs[p].waits <= 1
    /\ listPc = "left" => \A p \in Spawned : procs[p].state = "reaped" /\ procs[p].waits = 1

\* the job times out
TimeoutStep == m_asyncState = "RUNNING" /\ m_asyncState' = "TIMEOUT"

\* C26 (as stated): a job with a timeout of 2 s whose child does not end by
\* itself is in TIMEOUT no later than 3 s after its start
C26_TimeoutWithin3s ==
    [][(TimeoutStep /\ m_asyncTimeout = 2)
          => ElapsedUs(m_asyncStartTime, clock') <= 3 * UsecPerSec]_vars

\* C26: the step that takes a RUNNING job to TIMEOUT begins when the whole
\* seconds since the start have reached the timeout; it sends SIGTERM then,
\* sleeps one second, sends SIGKILL only if it then makes the blocking wait,
\* leaves the child waited for once and no pid recorded, and shows a message of
\* two lines; so TIMEOUT is reached one second after SIGTERM and no earlier
\* than timeout + 1 seconds after the start
C26_TimeoutAfterSigtermAndSleep ==
    [][TimeoutStep =>
          /\ ElapsedSec(m_asyncStartTime, clock) >= m_asyncTimeout
          /\ waitOp'.signals # <<>> /\ waitOp'.signals[1] = "SIGTERM"
          /\ (Len(waitOp'.signals) = 2) <=> (waitOp'.mode = "blocking")
          /\ ElapsedUs(clock, clock') = UsecPerSec
          /\ ElapsedUs(m_asyncStartTime, clock') >= (m_asyncTimeout + 1) * UsecPerSec
          /\ procs'[m_asyncPid].state = "reaped" /\ procs'[m_asyncPid].waits = 1
          /\ m_asyncPid' = NoPid
          /\ m_asyncWaitingForUser'
          /\ Len(m_asyncResultMessage') = 2]_vars

\* a job with a timeout of 2 s has been killed at the poll made 2.1 s after
\* its start and is in TIMEOUT 3.1 s after its start
C26_Witness ==
    /\ m_asyncState = "TIMEOUT" /\ m_asyncTimeout = 2
    /\ waitOp.signals # <<>>
    /\ ElapsedUs(m_asyncStartTime, clock) = 3100000

\* C27 (as stated): a child that has ended with a non-zero exit status, once
\* waited for, leaves the job in FAILED or TIMEOUT, never in COMPLETED
C27_NonZeroExitNeverCompleted ==
    [][\A p \in Spawned :
          (procs[p].state = "zombie" /\ procs[p].status # 0 /\ procs'[p].state = "reaped")
             => m_asyncState' \in {"FAILED", "TIMEOUT"}]_vars

\* an input was handed to the list screen
InputStep == lastInput' # lastInput

\* C28: a job that has ended waits for the user; while it waits and no input
\* arrives the job state does not change; the first input, a rotation or the
\* button, puts the screen back to the IDLE list as enter() draws it, and
\* moves no selection, starts no job and does not leave the module
C28_AnyInputDismisses ==
    /\ [](m_asyncState \in {"COMPLETED", "FAILED", "TIMEOUT"} => m_asyncWaitingForUser)
    /\ [][(listPc = "active" /\ m_asyncState \in {"COMPLETED", "FAILED", "TIMEOUT"})
            => IF InputStep
               THEN /\ m_asyncState' = "IDLE" /\ ~m_asyncWaitingForUser'
                    /\ m_selectedIndex' = 0
                    /\ ~m_shouldExit' /\ listPc' = "active"
                    /\ spawned' = spawned /\ procs' = procs
               ELSE /\ m_asyncState' = m_asyncState
                    /\ m_asyncWaitingForUser' = m_asyncWaitingForUser]_vars

\* the result of a job started from the second line has been dismissed by a
\* rotation: the list is back, with its first line selected
C28_Witness ==
    /\ listPc = "active" /\ m_asyncState = "IDLE" /\ ~m_asyncWaitingForUser
    /\ lastInput.kind = "Rotate" /\ m_selectedIndex = 0
    /\ m_asyncLogFile = "update.log" /\ spawned = 1 /\ procs[1].state = "reaped"
    /\ m_lastActivityTime = clock

\* C29: no handler of the list screen makes a blocking wait for its child or
\* sleeps longer than the input wait
C29_NoBlockingChildWait ==
    /\ waitOp.mode # "blocking"
    /\ waitOp.sleptUs <= InputWaitUs

\* C30: once the list screen has been left none of the processes it started
\* is still running
C30_ProcessesEndWithModule ==
    listPc = "left" => \A p \in Spawned : procs[p].state # "running"

(***************************************************************************)
(* I2CDisplayDevice: the text cursor; setBrightness on both back-ends      *)
(* (src/src/devices/I2CDisplayDevice.cpp, DisplayDevice.cpp, Display.cpp)  *)
(***************************************************************************)
\* the longest text drawn
MaxI2CText == 3

\* DeviceInterfaces.h:145-147
DISPLAY_WIDTH == 128

DISPLAY_HEIGHT == 64

DISPLAY_PAGES == 8

\* the width and height of a glyph (I2CDisplayDevice.cpp:287, 325, 330)
GlyphPx == 8

\* DeviceInterfaces.h:150 and Config.h:35
SSD1306_SET_CONTRAST == 129

CMD_BRIGHTNESS == 5

\* static_cast<uint8_t>(v)
U8(v) == v % 256

\* arguments handed to setCursor and drawText
CursorXs == {-1, 0, 5, 104, 112, 120, 125, 128, 200, 264}

CursorYs == {0, 8, 56, 63, 64, 100}

\* arguments handed to setBrightness
Brightnesses == {-5, 0, 128, 255, 256, 999}

NoI2COp == [op |-> "none", x |-> 0, y |-> 0, len |-> 0]

NoBrightnessOp == [arg |-> 128, device |-> "nullptr", byte |-> -1]

\* I2CDisplayDevice.cpp:196-199: setCursor(x, y)
SetCursor(x, y) == [x |-> U8(x), y |-> U8(y)]

DrawCharacterNoAdvance(cur) == cur

\* lines 282-334: what drawCharacter does to the cursor
DrawCharacter(cur) ==
    IF cur.y \div GlyphPx >= DISPLAY_PAGES \/ cur.x > DISPLAY_WIDTH - GlyphPx
    THEN cur
    ELSE LET x1 == U8(cur.x + GlyphPx)
         IN  IF x1 > DISPLAY_WIDTH - GlyphPx
             THEN [x |-> 0,
                   y |-> IF U8(cur.y + GlyphPx) >= DISPLAY_HEIGHT THEN 0
                         ELSE U8(cur.y + GlyphPx)]
             ELSE [x |-> x1, y |-> cur.y]

\* lines 189-193: the loop of drawText over the characters
RECURSIVE DrawCharacters(_, _)
DrawCharacters(cur, n) ==
    IF n = 0 THEN cur ELSE DrawCharacters(DrawCharacter(cur), n - 1)

\* I2CDisplayDevice.cpp:217: the clamp of setBrightness
I2CContrast(b) == U8(IF b > 255 THEN 255 ELSE (IF b < 0 THEN 0 ELSE b))

\* DisplayDevice.cpp:255: cmd[1] of the serial brightness frame
SerialBrightnessByte(b) == U8(b)

\* DisplayDevice.cpp:251-257: the frame of setBrightness(brightness)
BrightnessFrame(b) == <<CMD_BRIGHTNESS, SerialBrightnessByte(b)>>

PanelRest == <<clock, inputVars, displayVars, loopVars, monitorVars, waitVars, workerVars,
               menuVars, asyncVars>>

\* MicroPanel.cpp:1163-1184: createDisplayDevice(devicePath)
CreateDisplayDevice(kind) ==
    /\ m_baseDisplayDevice = "nullptr"
    /\ m_baseDisplayDevice' = kind
    /\ UNCHANGED <<m_cursorX, m_cursorY, i2cOp, m_brightness, brightnessOp, serialVars, PanelRest>>

\* I2CDisplayDevice.cpp:196-199
I2CSetCursor(x, y) ==
    /\ m_baseDisplayDevice = "I2CDisplayDevice"
    /\ m_cursorX' = SetCursor(x, y).x
    /\ m_cursorY' = SetCursor(x, y).y
    /\ i2cOp' = [op |-> "setCursor", x |-> x, y |-> y, len |-> 0]
    /\ UNCHANGED <<m_baseDisplayDevice, m_brightness, brightnessOp, serialVars, PanelRest>>

\* I2CDisplayDevice.cpp:186-194: drawText(x, y, text), text of len characters
I2CDrawText(x, y, len) ==
    /\ m_baseDisplayDevice = "I2CDisplayDevice"
    /\ LET cur == DrawCharacters(SetCursor(x, y), len)
       IN  /\ m_cursorX' = cur.x
           /\ m_cursorY' = cur.y
    /\ i2cOp' = [op |-> "drawText", x |-> x, y |-> y, len |-> len]
    /\ UNCHANGED <<m_baseDisplayDevice, m_brightness, brightnessOp, serialVars, PanelRest>>

\* I2CDisplayDevice.cpp:163-184: clear()
I2CClear ==
    /\ m_baseDisplayDevice = "I2CDisplayDevice"
    /\ m_cursorX' = 0
    /\ m_cursorY' = 0
    /\ i2cOp' = [NoI2COp EXCEPT !.op = "clear"]
    /\ UNCHANGED <<m_baseDisplayDevice, m_brightness, brightnessOp, serialVars, PanelRest>>

\* Display.cpp:44-50: Display::setBrightness(brightness), and the device's
\* setBrightness it calls (DisplayDevice.cpp:251-257 through sendCommand,
\* I2CDisplayDevice.cpp:213-221 through writeCommand)
DisplaySetBrightness(b, w, dr) ==
    /\ m_baseDisplayDevice # "nullptr"
    /\ m_brightness' = b
    /\ IF m_baseDisplayDevice = "DisplayDevice"
       THEN /\ serialPc = "ready"
            /\ SendCommandCall(BrightnessFrame(b), w, dr)
            /\ brightnessOp' = [arg |-> b, device |-> "DisplayDevice",
                                byte |-> IF serialFdOpen THEN BrightnessFrame(b)[2] ELSE -1]
       ELSE /\ brightnessOp' = [arg |-> b, device |-> "I2CDisplayDevice",
                                byte |-> I2CContrast(b)]
            /\ UNCHANGED serialVars
    /\ UNCHANGED <<m_baseDisplayDevice, m_cursorX, m_cursorY, i2cOp, PanelRest>>

(***************************************************************************)
(* Properties of the I2C cursor and of setBrightness                       *)
(***************************************************************************)
\* the cursor of the I2C device
Cursor == [x |-> m_cursorX, y |-> m_cursorY]

\* C31 (as stated): after drawText(x, y, s) the cursor is where
\* setCursor(x + 8*len(s), y) puts it, for every x, y and s
C31_DrawTextThenSetCursor ==
    i2cOp.op = "drawText" => Cursor = SetCursor(i2cOp.x + GlyphPx * i2cOp.len, i2cOp.y)

\* C31: after drawText(x, y, s) with 0 <= x, 0 <= y < 64 and a text that ends
\* at or before the last glyph column (x + 8*len(s) <= 120) the cursor is at
\* (x + 8*len(s), y), where setCursor(x + 8*len(s), y) puts it
C31_DrawTextWithinTheRow ==
    (/\ i2cOp.op = "drawText"
     /\ 0 <= i2cOp.x /\ 0 <= i2cOp.y /\ i2cOp.y < DISPLAY_HEIGHT
     /\ i2cOp.x + GlyphPx * i2cOp.len <= DISPLAY_WIDTH - GlyphPx)
        => /\ Cursor = [x |-> i2cOp.x + GlyphPx * i2cOp.len, y |-> i2cOp.y]
           /\ Cursor = SetCursor(i2cOp.x + GlyphPx * i2cOp.len, i2cOp.y)

\* two glyphs drawn from (104, 8) leave the cursor at (120, 8)
C31_Witness ==
    /\ i2cOp = [op |-> "drawText", x |-> 104, y |-> 8, len |-> 2]
    /\ Cursor = [x |-> 120, y |-> 8]

\* C32: the value byte written by setBrightness is its argument clamped to
\* 0..255, on both back-ends
C32_BrightnessClamped ==
    brightnessOp.byte # -1 =>
        brightnessOp.byte = (IF brightnessOp.arg > 255 THEN 255
                             ELSE IF brightnessOp.arg < 0 THEN 0 ELSE brightnessOp.arg)

\* C35: the cursor of the I2C device is inside the panel
C35_CursorInsidePanel ==
    /\ 0 <= m_cursorX /\ m_cursorX < DISPLAY_WIDTH
    /\ 0 <= m_cursorY /\ m_cursorY < DISPLAY_HEIGHT

(***************************************************************************)
(* Properties of the cap of one drain of the encoder source                *)
(***************************************************************************)
\* the raw events that processEvents acts on: counted key presses and rotary
\* movement (lines 203-272, 279-344)
ActedOn(ev) == CountedKey(ev) \/ (ev.type = EV_REL /\ ev.code \in {REL_X, REL_Y})

\* the drain returns
DrainReturns == pc = "post" /\ pc' = "idle"

\* C33: one drain acts on at most 5 raw events; an event read once 5 have
\* been acted on changes nothing and is discarded; when the drain returns
\* after 5 events nothing is left pending on the device, what was pending has
\* been discarded; no discarded event has reached a handler; and a drain that
\* has begun returns
C33_DrainCap ==
    /\ [](/\ eventCount <= MAX_EVENTS_PER_ITERATION
          /\ eventCount = Cardinality({i \in DOMAIN readLog : ActedOn(readLog[i])})
          /\ Len(delivered) <= eventCount + 2)
    /\ [][(pc = "loop" /\ eventCount >= MAX_EVENTS_PER_ITERATION)
            => /\ UNCHANGED <<m_state, btnPress, pendingMovement, pendingVerticalMovement,
                              readLog, delivered, eventCount>>
               /\ (pc' = "post" /\ devQueue # <<>>)
                     => flushed' = Append(flushed, Head(devQueue))]_vars
    /\ [][(DrainReturns /\ eventCount >= MAX_EVENTS_PER_ITERATION)
            => /\ devQueue' = <<>>
               /\ flushed' = flushed \o devQueue]_vars
    /\ [][(DrainReturns /\ eventCount < MAX_EVENTS_PER_ITERATION)
            => /\ devQueue' = devQueue
               /\ flushed' = <<>>]_vars
    /\ (pc # "idle") ~> (pc = "idle")

\* a drain has acted on five rotary events and flushed a sixth event, a
\* button press, which reached no handler
C33_Witness ==
    /\ pc = "idle" /\ eventCount = MAX_EVENTS_PER_ITERATION
    /\ Len(readLog) = 5 /\ flushed = <<RawEvent(EV_KEY, BTN_LEFT, 1)>>
    /\ \A i \in DOMAIN delivered : delivered[i].kind # "Button"
    /\ devQueue = <<>>

(***************************************************************************)
(* Properties of the scrolling of the list screen                          *)
(***************************************************************************)
Max(a, b) == IF a >= b THEN a ELSE b

Min(a, b) == IF a <= b THEN a ELSE b

\* the first visible row as a function of the selection alone
FirstVisibleOf(selected, total) == Max(0, Min(selected, total - MaxVisibleItems))

\* a rotation has been handled by the navigation of the list
SelectionStep ==
    /\ listPc = "active" /\ lastInput' # lastInput /\ lastInput'.kind = "Rotate"
    /\ m_asyncState = "IDLE"

\* C34 as stated: after every selection change the first visible row is
\* max(0, min(selected, total - 6)), for every list length and every sequence
\* of rotations
C34_FirstVisibleFormula ==
    listPc = "active" => m_firstVisibleItem = FirstVisibleOf(m_selectedIndex, Len(m_items))

\* C34: after every selection change the window of 6 visible rows has
\* followed the selection by the least move that keeps it visible: the first
\* visible row becomes the selection when the selection is above the window,
\* the selection minus 5 when it is below, and stays otherwise; hence the
\* selection is always one of the 6 visible rows and the first visible row
\* lies between 0 and max(0, total - 6)
C34_WindowFollowsSelection ==
    /\ [](listPc = "active" =>
             /\ m_firstVisibleItem <= m_selectedIndex
             /\ m_selectedIndex < m_firstVisibleItem + MaxVisibleItems
             /\ 0 <= m_firstVisibleItem
             /\ m_firstVisibleItem <= Max(0, Len(m_items) - MaxVisibleItems))
    /\ [][SelectionStep =>
             m_firstVisibleItem' =
                IF m_selectedIndex' < m_firstVisibleItem THEN m_selectedIndex'
                ELSE IF m_selectedIndex' >= m_firstVisibleItem + MaxVisibleItems
                THEN m_selectedIndex' - (MaxVisibleItems - 1)
                ELSE m_firstVisibleItem]_vars

\* in a list of 8 items the selection has gone down to the last item and one
\* step back up: the window has moved to rows 2..7 and stays there
C34_Witness ==
    /\ listPc = "active" /\ Len(m_items) = 8
    /\ m_selectedIndex = 6 /\ m_firstVisibleItem = 2
    /\ lastInput.kind = "Rotate"

(***************************************************************************)
(* Properties of the callback of the list screen                           *)
(***************************************************************************)
\* the screen is left through its Back item: Back has set m_shouldExit and
\* the module loop ends
LeavesThroughBack == listPc = "active" /\ listPc' = "left" /\ m_shouldExit

\* C36: with notify_on_exit set, a callback attached and a callback action
\* configured, leaving the list through Back calls the callback exactly once
\* with the action and the value, with the encoder and with GPIO input: the
\* call is made when the screen is left and no other call is made during
\* the visit
C36_ExitNotifiesOnce ==
    [][(listPc = "active" /\ NotifiesOnExit)
          => IF LeavesThroughBack
             THEN callbacks' = Append(callbacks, CallbackCall(m_callbackAction, m_selectedValue))
             ELSE callbacks' = callbacks]_vars

(***************************************************************************)
(* Properties of the list screen while a job is running                    *)
(***************************************************************************)
\* the children that have been forked and not been waited for
LiveChildren == {p \in Spawned : procs[p].state \in {"running", "zombie"}}

\* C38: the list screen never has more than one child that has not been
\* waited for; an input handed to it while a job is RUNNING changes neither
\* the job, the children, the selection nor the exit flag, on both input
\* paths; and the screen is not left while its job is RUNNING
C38_OneJobAtATime ==
    /\ [](Cardinality(LiveChildren) <= 1)
    /\ [][(m_asyncState = "RUNNING" /\ InputStep)
             => UNCHANGED <<m_asyncState, m_asyncPid, spawned, procs, m_selectedIndex,
                            m_shouldExit, listPc>>]_vars
    /\ [][(listPc = "active" /\ listPc' = "left") => m_asyncState # "RUNNING"]_vars

(***************************************************************************)
(* Properties of the flush of the serial back-end                          *)
(***************************************************************************)
\* flushBuffer() has taken bytes out of the buffer
FlushStep ==
    /\ serialOp'.name = "flushBuffer"
    /\ m_cmdBuffer.bytes # <<>> /\ m_cmdBuffer'.bytes # m_cmdBuffer.bytes

\* C40: buffered frames are never lost by a flush: when flushBuffer() returns
\* either the device has accepted every byte that was buffered, or the bytes
\* it has not accepted are still in the buffer, or the disconnected flag is set
C40_FlushLosesNothing ==
    [][FlushStep => \/ serialOp'.accepted = m_cmdBuffer.bytes
                    \/ serialOp'.accepted \o m_cmdBuffer'.bytes = m_cmdBuffer.bytes
                    \/ m_disconnected']_vars

(***************************************************************************)
(* Properties of the back item of the nested menus                         *)
(***************************************************************************)
\* the layers of the menu stack below the innermost one
LowerLayers == {i \in DOMAIN menuStack : i < Len(menuStack)}

\* the innermost menu has been told to leave by its back item
BackChosen(d) ==
    /\ ~popRequest.pending /\ Len(menuStack) = d
    /\ MenuTop.id \in MenuIds /\ m_exitToParent[MenuTop.id]

\* C39: while no choice of "Main Menu" is being carried out, a menu that has
\* been told to leave by its back item is popped, the step that pops it pops
\* that one layer only, and the layers below keep running with their exit
\* flags clear; a menu that is entered, also after an earlier pop-to-root has
\* left the exit and pop-to-root flags of the menus set, runs with both of
\* its flags clear; with and without GPIO
C39_BackPopsOneLevel ==
    /\ [](~popRequest.pending =>
             \A i \in LowerLayers :
                /\ menuStack[i].running
                /\ menuStack[i].id \in MenuIds => ~m_exitToParent[menuStack[i].id])
    /\ [][(~popRequest.pending /\ Len(menuStack') < Len(menuStack))
             => /\ menuStack' = SubSeq(menuStack, 1, Len(menuStack) - 1)
                /\ menuStack' # <<>> => MenuTop'.running]_vars
    /\ [][\A m \in MenuIds :
             EntersMenu(m) => /\ MenuTop'.id = m /\ MenuTop'.running
                              /\ ~m_exitToParent'[m] /\ ~m_exitToMainMenu'[m]]_vars
    /\ \A d \in 1..3 : BackChosen(d) ~> (Len(menuStack) = d - 1)

\* "Main Menu" was chosen in menuC and has unwound menuC, menuB and menuA;
\* menuA and menuB have been entered again and back in menuB has popped menuB
\* alone: menuA is running, menuC still holds its pop-to-root flag
C39_Witness ==
    /\ Len(menuStack) = 1 /\ MenuTop.id = "menuA" /\ MenuTop.running
    /\ enterCount["menuA"] = 2 /\ enterCount["menuB"] = 2 /\ exitCount["menuB"] = 2
    /\ exitCount["menuC"] = 1 /\ m_exitToMainMenu["menuC"]
    /\ m_exitToParent["menuB"] /\ ~m_exitToMainMenu["menuB"]
    /\ ~m_exitToParent["menuA"]

(***************************************************************************)
(* Properties of the server pid of the throughput server screen            *)
(***************************************************************************)
\* C37: whenever an iperf3 child forked by a launcher thread is alive, the
\* pid recorded in m_serverPid is the pid of that child, for every
\* interleaving of Start, Stop and the launcher threads
C37_LiveServerIsRecorded == \A i \in children : m_serverPid = i

(***************************************************************************)
(* Specifications                                                          *)
(***************************************************************************)
InitInput ==
    /\ m_state = [lastEventTime |-> ZeroTime, pairedEventCount |-> 0,
                  totalRelX |-> 0, totalRelY |-> 0]
    /\ pc = "idle"
    /\ eventCount = 0
    /\ btnPress = 0
    /\ pendingMovement = FALSE
    /\ pendingVerticalMovement = FALSE
    /\ readLog = <<>>
    /\ delivered = <<>>
    /\ devQueue = <<>>
    /\ flushed = <<>>

\* lines 11-16: a constructed DisplayDevice, opened by the supervisor
InitSerial ==
    /\ serialFdOpen = TRUE
    /\ m_disconnected = FALSE
    /\ m_cmdBuffer = [bytes |-> <<>>, lastFlush |-> StartTime]
    /\ m_mutex = "free"
    /\ serialPc = "ready"
    /\ serialOp = NoOp("open")

\* src/include/MenuSystem.h:111-116 and Display.cpp:8-13: a constructed Display
InitDisplay ==
    /\ m_poweredOn = TRUE
    /\ m_powerSaveEnabled = FALSE
    /\ m_powerSaveActivated = FALSE
    /\ m_lastActivityTime = StartTime
    /\ displayOp = [name |-> "Display", changedPower |-> FALSE]

\* src/include/MicroPanel.h:56-74: a constructed MicroPanel, no module running
InitLoop ==
    /\ m_config = [powerSaveEnabled |-> FALSE, autoDetect |-> FALSE, useGPIOMode |-> FALSE]
    /\ m_running = TRUE                 \* MicroPanel.cpp:38
    /\ stack = <<>>
    /\ loopPc = "init"
    /\ rotateAt = ZeroTime
    /\ enterCalls = 0
    /\ exitCalls = 0
    /\ m_asyncState = "IDLE"

\* src/include/DeviceInterfaces.h:261-262: no monitor thread yet
InitMonitor ==
    /\ m_deviceDisconnected = FALSE
    /\ m_monitorThreadRunning = FALSE
    /\ monitors = <<>>
    /\ devicePresent = TRUE

\* DeviceManager.cpp:237,316: the devices are open, nothing has been waited for
InitWait ==
    /\ inputFdOpen = TRUE
    /\ reconnectAttempts = 0
    /\ lastPeriodicCheck = 0

\* ThroughputServerScreen.cpp:27 and PersistentStorage.cpp:50: no server, no
\* save pending, no worker thread; nothing has been touched yet
InitWorkers ==
    /\ m_serverPid = -1
    /\ serverThreads = <<>>
    /\ children = {}
    /\ m_savePending = FALSE
    /\ m_isDirty = FALSE
    /\ saveThreads = <<>>
    /\ touched = [v \in SharedNames |-> {}]

\* MenuScreenModule.h:55-58,65: the menu modules as constructed
InitMenu ==
    /\ menuPc = "config"
    /\ useGPIOMode = FALSE
    /\ m_isTopLevelMenu = [m \in MenuIds |-> FALSE]
    /\ m_exitToParent = [m \in MenuIds |-> FALSE]
    /\ m_exitToMainMenu = [m \in MenuIds |-> FALSE]
    /\ m_parentMenu = [m \in MenuIds |-> NoParent]
    /\ m_menu = [m \in MenuIds |-> {}]
    /\ inverted = FALSE
    /\ menuStack = <<>>
    /\ entered = {}
    /\ enterCount = [x \in MenuIds \cup LeafIds |-> 0]
    /\ exitCount = [x \in MenuIds \cup LeafIds |-> 0]
    /\ popRequest = NoRequest

\* ScreenModules.h:612-618: a constructed GenericListScreen
InitAsync ==
    /\ listPc = "none"
    /\ m_selectedIndex = 0
    /\ m_shouldExit = FALSE
    /\ m_asyncPid = NoPid
    /\ m_asyncWaitingForUser = FALSE
    /\ m_asyncStartTime = ZeroTime
    /\ m_asyncTimeout = 0
    /\ m_asyncLogFile = ""
    /\ m_asyncResultMessage = <<>>
    /\ procs = [p \in 1..MaxSpawns |-> NoProc]
    /\ spawned = 0
    /\ waitOp = WaitOp("none", 0)
    /\ lastInput = [kind |-> "none", n |-> 0]
    /\ m_items = ListItems
    /\ m_firstVisibleItem = 0
    /\ m_notifyOnExit = FALSE
    /\ m_callback = FALSE
    /\ m_callbackAction = ""
    /\ callbacks = <<>>

\* DeviceInterfaces.h:177-178, MenuSystem.h:112, MicroPanel.h (m_baseDisplayDevice)
InitPanel ==
    /\ m_baseDisplayDevice = "nullptr"
    /\ m_cursorX = 0
    /\ m_cursorY = 0
    /\ i2cOp = NoI2COp
    /\ m_brightness = 128
    /\ brightnessOp = NoBrightnessOp

Init ==
    /\ clock = StartTime
    /\ InitInput
    /\ InitSerial
    /\ InitDisplay
    /\ InitLoop
    /\ InitMonitor
    /\ InitWait
    /\ InitWorkers
    /\ InitMenu
    /\ InitAsync
    /\ InitPanel

\* raw events fed to the encoder source
TimingEvents ==
    {RawEvent(EV_REL, REL_X, 1), RawEvent(EV_REL, REL_X, -1),
     RawEvent(EV_REL, REL_Y, 1), RawEvent(EV_KEY, KEY_LEFT, 1)}

EncoderEvents ==
    {RawEvent(EV_REL, REL_X, 1), RawEvent(EV_REL, REL_X, -1), RawEvent(EV_REL, REL_Y, 1)}

KeyEvents ==
    {RawEvent(EV_KEY, KEY_LEFT, 1), RawEvent(EV_KEY, KEY_DOWN, 1),
     RawEvent(EV_KEY, KEY_DOWN, 0), RawEvent(EV_KEY, KEY_ENTER, 1),
     RawEvent(EV_KEY, BTN_LEFT, 1)}

\* the encoder source under encoder movement, a key press and passing time
NextInput ==
    \/ ProcessEventsBegin
    \/ \E ev \in TimingEvents : Len(readLog) < MaxReads /\ ReadEvent(ev)
    \/ ReadNone
    \/ ProcessEventsEnd
    \/ \E us \in TickSteps : Tick(us, MaxElapsedUs)

SpecInput == Init /\ [][NextInput]_vars

\* the encoder source under mixed key and encoder events, drains back to back
NextKeys ==
    \/ ProcessEventsBegin
    \/ \E ev \in EncoderEvents \cup KeyEvents : Len(readLog) < MaxBatch /\ ReadEvent(ev)
    \/ ReadNone
    \/ ProcessEventsEnd

SpecKeys == Init /\ [][NextKeys]_vars

\* frames handed to the serial back-end
Text(n) == [i \in 1..n |-> 65]

BufferedFrames == {DrawTextFrame(0, 16, Text(ShortText)), DrawTextFrame(0, 24, Text(LongText))}

SentFrames == {ClearFrame, DrawTextFrame(0, 16, Text(ShortText))}

\* the serial back-end under any sequence of calls and device answers
NextSerial ==
    \/ \E w \in WriteOutcomes(Len(m_cmdBuffer.bytes)), dr \in DrainOutcomes : FlushBuffer(w, dr)
    \/ \E f \in BufferedFrames, relock \in {"blocks", "returns"},
          w \in WriteOutcomes(Len(m_cmdBuffer.bytes)), dr \in DrainOutcomes :
            BufferCommand(f, relock, w, dr)
    \/ \E f \in SentFrames : \E w \in WriteOutcomes(Len(f)), dr \in DrainOutcomes :
            SendCommand(f, w, dr)
    \/ \E ok \in BOOLEAN : SerialOpen(ok)
    \/ \E w \in WriteOutcomes(Len(m_cmdBuffer.bytes)), dr \in DrainOutcomes : SerialClose(w, dr)

SpecSerial == Init /\ [][NextSerial]_vars

\* steps of the clock between two Display calls (microseconds)
DisplayTickSteps == {600000, 9000000}

\* the Display wrapper under any sequence of calls, over the serial back-end
NextDisplay ==
    \/ \E on \in BOOLEAN, w \in WriteOutcomes(2), dr \in DrainOutcomes : SetPower(on, w, dr)
    \/ \E en \in BOOLEAN, w \in WriteOutcomes(2), dr \in DrainOutcomes :
            EnablePowerSave(en, w, dr)
    \/ \E w \in WriteOutcomes(2), dr \in DrainOutcomes : UpdateActivityTimestamp(w, dr)
    \/ \E w \in WriteOutcomes(2), dr \in DrainOutcomes : CheckPowerSaveTimeout(w, dr)
    \/ ResetPowerSaveActivated
    \/ \E us \in DisplayTickSteps : Tick(us, MaxDisplayUs)

SpecDisplay == Init /\ [][NextDisplay]_vars

\* configurations of a panel driven by GPIO buttons
GpioConfigs ==
    {[powerSaveEnabled |-> p, autoDetect |-> a, useGPIOMode |-> TRUE] : p, a \in BOOLEAN}

\* the wake-up write succeeds
LoopWrites == {[n |-> 2, errno |-> "none"]}

LoopDrains == {[rc |-> 0, errno |-> "none"]}

NoInput == [kind |-> "none", steps |-> 0, site |-> "none"]

GpioCalls == {Rotate(5, "gpio"), Button}

LoopTickSteps == {5500000}

AllItems == UNION {ItemsOf(k) : k \in ModuleKinds}

\* the module loops: a panel with GPIO buttons, its root menu and its modules;
\* the panel can be unplugged, its return is followed in SpecSupervisor
NextModule ==
    \/ \E cfg \in GpioConfigs, w \in LoopWrites, dr \in LoopDrains : Run(cfg, w, dr)
    \/ MainTickBegin
    \/ \E c \in GpioCalls, w \in LoopWrites, dr \in LoopDrains :
          \E kind \in (IF c.kind = "Rotate" THEN {"TextBoxScreen"} ELSE ModuleKinds) :
             MainCall(c, kind, w, dr)
    \/ \E w \in LoopWrites, dr \in LoopDrains : MainTickEnd(w, dr)
    \/ \E w \in LoopWrites, dr \in LoopDrains : MainDisconnect(w, dr)
    \/ ModuleTickBegin
    \/ \E c \in GpioCalls, w \in LoopWrites, dr \in LoopDrains :
          \E item \in (IF c.kind = "Rotate" THEN {"none"} ELSE AllItems) :
             \E forked \in (IF item = "async" THEN BOOLEAN ELSE {TRUE}) :
                ModuleCall(c, item, forked, w, dr)
    \/ \E result \in AsyncResults, enc \in {NoInput, Rotate(1, "encoder"), Button} :
          ModuleTickEnd(result, enc)
    \/ ModuleExit
    \/ SignalHandler
    \/ MainLoopEnd
    \/ \E us \in LoopTickSteps : LoopDelay(us)
    \/ \E i \in 1..MaxMonitors : MonitorThreadStart(i, TRUE)
    \/ \E i \in 1..MaxMonitors : MonitorThreadDetect(i)
    \/ Unplug
    \/ JoinDone
    \/ WaitIteration(MaxLoopUs)

SpecModule == Init /\ [][NextModule]_vars

\* configurations of a panel on USB, read through its HID encoder
UsbConfigs ==
    {[powerSaveEnabled |-> p, autoDetect |-> a, useGPIOMode |-> FALSE] : p, a \in BOOLEAN}

\* a write to the device succeeds or meets a vanished device
SupervisorWrites == {[n |-> 2, errno |-> "none"], [n |-> -1, errno |-> "EIO"]}

\* the supervisor: start-up, the main loop at the root menu, the removal
\* monitor thread, reconnection and shutdown
NextSupervisor ==
    \/ \E cfg \in UsbConfigs : InitializeWait(cfg)
    \/ \E cfg \in UsbConfigs, w \in SupervisorWrites, dr \in LoopDrains : Run(cfg, w, dr)
    \/ MainTickBegin
    \/ \E w \in SupervisorWrites, dr \in LoopDrains :
          MainCall(Rotate(1, "encoder"), "TextBoxScreen", w, dr)
    \/ \E w \in SupervisorWrites, dr \in LoopDrains : MainTickEnd(w, dr)
    \/ \E w \in SupervisorWrites, dr \in LoopDrains : MainDisconnect(w, dr)
    \/ JoinDone
    \/ WaitIteration(MaxSupervisorUs)
    \/ \E found, inputOk, displayOk \in BOOLEAN : Reconnect(found, inputOk, displayOk)
    \/ Shutdown
    \/ SignalHandler
    \/ MainLoopEnd
    \/ \E us \in LoopTickSteps : LoopDelay(us)
    \/ \E i \in 1..MaxMonitors, udevOk \in BOOLEAN : MonitorThreadStart(i, udevOk)
    \/ \E i \in 1..MaxMonitors : MonitorThreadDetect(i)
    \/ \E i \in 1..MaxMonitors : MonitorThreadEnd(i)
    \/ Unplug
    \/ Plug

SpecSupervisor == Init /\ [][NextSupervisor]_vars

\* the wait for the device at start-up
NextWait ==
    \/ \E cfg \in UsbConfigs : InitializeWait(cfg)
    \/ \E cfg \in UsbConfigs, w \in LoopWrites, dr \in LoopDrains : Run(cfg, w, dr)
    \/ WaitIteration(MaxWaitUs)
    \/ SignalHandler
    \/ Unplug
    \/ Plug

SpecWait == Init /\ [][NextWait]_vars

\* the worker threads of the throughput server screen and of the storage
NextThreads ==
    \/ StartServer
    \/ \E i \in 1..MaxServerThreads, ok \in BOOLEAN : ServerThreadFork(i, ok)
    \/ \E i \in 1..MaxServerThreads : ServerThreadReap(i)
    \/ \E i \in 1..MaxServerThreads : ChildExits(i)
    \/ StopServer
    \/ SetValue
    \/ CancelScheduledSave
    \/ \E i \in 1..MaxSaveThreads, written \in BOOLEAN : SaveThreadRun(i, written)

SpecThreads == Init /\ [][NextThreads]_vars

\* the list screen with its async items, in both input modes
NextAsync ==
    \/ \E gpio \in BOOLEAN : LoadConfigFromJson(gpio, {"menuA"})
    \/ ListEnter
    \/ \E c \in {Rotate(1, "gpio"), Rotate(-1, "gpio"), Button}, forked \in BOOLEAN,
          w \in LoopWrites, dr \in LoopDrains : ListInput(c, forked, w, dr)
    \/ \E p \in 1..MaxSpawns, status \in {0, 1}, content \in LogContents :
          AsyncChildExits(p, status, content)
    \/ \E diesOnTerm \in BOOLEAN : ListUpdate(diesOnTerm)
    \/ ListLeave
    \/ SignalHandler
    \/ \E us \in AsyncTickSteps : Tick(us, MaxAsyncUs)

SpecAsync == Init /\ [][NextAsync]_vars

\* the nested menus, driven by the button, with and without GPIO input
NextMenu ==
    \/ \E gpio \in BOOLEAN, enabled \in EnabledSets : LoadConfigFromJson(gpio, enabled)
    \/ \E x \in MenuIds \cup LeafIds : RootButton(x)
    \/ \E item \in MenuIds \cup LeafIds \cup {"back", "Main Menu", "invert_display"} :
          MenuButton(item)
    \/ MenuHandleInput
    \/ LeafButton
    \/ ListRedraw
    \/ MenuReturn

SpecMenu == Init /\ [][NextMenu]_vars

\* a module whose loop has ended does return (MicroPanel.cpp:909,1018-1021),
\* and a menu that waits at most 100 ms for input (MenuScreenModule.cpp:73)
\* does come back to the head of handleInput()
SpecMenuFair == SpecMenu /\ WF_vars(MenuReturn) /\ WF_vars(MenuHandleInput)

NextPanel ==
    \/ \E kind \in {"DisplayDevice", "I2CDisplayDevice"} : CreateDisplayDevice(kind)
    \/ \E x \in CursorXs, y \in CursorYs : I2CSetCursor(x, y)
    \/ \E x \in CursorXs, y \in CursorYs, len \in 0..MaxI2CText : I2CDrawText(x, y, len)
    \/ I2CClear
    \/ \E b \in Brightnesses, w \in WriteOutcomes(2), dr \in DrainOutcomes :
           DisplaySetBrightness(b, w, dr)

SpecPanel == Init /\ [][NextPanel]_vars

\* the list screen with lists of every length, in both input modes
NextList ==
    \/ \E gpio \in BOOLEAN : LoadConfigFromJson(gpio, {"menuA"})
    \/ \E n \in 1..MaxListItems, notify \in BOOLEAN, action \in CallbackActions :
          ListSetConfig(PlainList(n), notify, action)
    \/ ListSetCallback
    \/ ListEnter
    \/ \E c \in {Rotate(1, "gpio"), Rotate(-1, "gpio"), Button}, w \in LoopWrites,
          dr \in LoopDrains : ListInput(c, TRUE, w, dr)
    \/ ListLeave

SpecList == Init /\ [][NextList]_vars

\* raw events that arrive on the device while the cap is examined
DrainEvents ==
    {RawEvent(EV_REL, REL_X, 1), RawEvent(EV_KEY, BTN_LEFT, 1), RawEvent(EV_SYN, 0, 0)}

\* the kernel queues an event for the device
EventArrives(ev) ==
    /\ pc \in {"idle", "loop"}
    /\ Len(devQueue) + Len(readLog) + Len(flushed) < MaxPending
    /\ devQueue' = Append(devQueue, ev)
    /\ UNCHANGED <<clock, m_state, pc, eventCount, btnPress, pendingMovement,
                   pendingVerticalMovement, readLog, delivered, flushed, serialVars,
                   displayVars, supervisorVars>>

\* line 189: read() returns the oldest pending event
DrainRead == devQueue # <<>> /\ ReadEvent(Head(devQueue))

NextDrain ==
    \/ \E ev \in DrainEvents : EventArrives(ev)
    \/ ProcessEventsBegin
    \/ DrainRead
    \/ ReadNone
    \/ ProcessEventsEnd

SpecDrain == Init /\ [][NextDrain]_vars

\* the thread inside processEvents runs on
SpecDrainFair ==
    SpecDrain /\ WF_vars(DrainRead) /\ WF_vars(ReadNone) /\ WF_vars(ProcessEventsEnd)

====
